---------------------------- MODULE Spec2Model ----------------------------
(***************************************************************************)
(* GratiDay data-access layer: the entities Usuario, Categoria and Frase   *)
(* over the single shared Database connection and the MySQL store.         *)
(*                                                                         *)
(* Strings are sequences of one-character strings, so that length, trim()  *)
(* and the email regular expression are computed as the code computes      *)
(* them.  An identifier field holds 0 where the code holds null (the       *)
(* constructors map every falsy identifier to null).                       *)
(***************************************************************************)
EXTENDS Integers, Sequences, FiniteSets, TLC

VARIABLES
    scenario,      \* which entity class the caller exercises in this run
    now,           \* the clock read by new Date() and by the store
    connection,    \* Database.connection (current: 0 is null) and the
                   \* connections the driver has made and ended
    lastInsertId,  \* LAST_INSERT_ID() of the connection
    nextId,        \* AUTO_INCREMENT counter of each table
    usuario,       \* table usuario: a set of rows
    categoria,     \* table categoria: a set of rows
    frase,         \* table frase: a set of rows
    usr,           \* the Usuario instance the caller holds
    cat,           \* the Categoria instance the caller holds
    frs,           \* the Frase instance the caller holds
    task,          \* per instance: the call in flight or the last call's outcome
    queue,         \* statements submitted to the connection, in FIFO order
    probe,         \* the value returned by the last direct validate() call
    onDelete,      \* ON DELETE action of the foreign keys of frase
    calls,         \* number of entity operations the caller has started
    console        \* GratiDayConsole: the prompt it waits at and what it holds

vars == <<scenario, console, now, connection, lastInsertId, nextId, usuario, categoria,
          frase, usr, cat, frs, task, queue, probe, onDelete, calls>>

(***************************************************************************)
(* Bounds of the model.                                                    *)
(***************************************************************************)
MaxTime == 2
MaxCalls == 3
MaxSalt == 1

(***************************************************************************)
(* Limits written in the validation code.                                  *)
(***************************************************************************)
MinNombreLen == 2
MinPasswordLen == 6
MaxCategoriaNombreLen == 80
MaxDescripcionLen == 255
MinTextoLen == 10
MaxTextoLen == 1000
MaxAutorLen == 120
DefaultLimit == 50
SaltBytes == 16
KeyBytes == 64

(***************************************************************************)
(* Strings.                                                                *)
(***************************************************************************)
Whitespace == {" "}

Rep(c, n) == [i \in 1..n |-> c]

\* String.prototype.trim
Trim(s) ==
    LET Inked(i) == s[i] \notin Whitespace
    IN  IF \A i \in 1..Len(s) : ~Inked(i)
        THEN <<>>
        ELSE SubSeq(s,
                    CHOOSE a \in 1..Len(s) :
                        Inked(a) /\ \A j \in 1..(a - 1) : ~Inked(j),
                    CHOOSE b \in 1..Len(s) :
                        Inked(b) /\ \A j \in (b + 1)..Len(s) : ~Inked(j))

\* a run of one or more characters of the class [^\s@]
NoSpaceAt(s, a, b) ==
    /\ a <= b
    /\ \A i \in a..b : s[i] \notin Whitespace /\ s[i] # "@"

\* /^[^\s@]+@[^\s@]+\.[^\s@]+$/.test(email)
isValidEmail(email) ==
    \E i \in 1..Len(email), j \in 1..Len(email) :
        /\ i < j
        /\ email[i] = "@"
        /\ email[j] = "."
        /\ NoSpaceAt(email, 1, i - 1)
        /\ NoSpaceAt(email, i + 1, j - 1)
        /\ NoSpaceAt(email, j + 1, Len(email))

(***************************************************************************)
(* Credential values.  A password_hash field holds either a string the     *)
(* caller supplied (kind "plain") or the output salt:hash of hashPassword  *)
(* (kind "hash"), which is determined by the salt and the plaintext.       *)
(***************************************************************************)
PlainCred(s) == [kind |-> "plain", salt |-> 0, pw |-> s]

NoCred == PlainCred(<<>>)

\* salt + ':' + pbkdf2(password, salt)
hashPassword(password, salt) == [kind |-> "hash", salt |-> salt, pw |-> password]

\* .length of the field: the salt and the key are written in hexadecimal
CredLen(c) ==
    IF c.kind = "hash" THEN 2 * SaltBytes + 1 + 2 * KeyBytes ELSE Len(c.pw)

\* a verification that accepts every password
verifyAnyPassword(password, hash) == TRUE

\* hash.split(':'), re-derive with the extracted salt, compare
verifyPassword(password, hash) ==
    /\ hash.kind = "hash"
    /\ hashPassword(password, hash.salt) = hash

(***************************************************************************)
(* Timestamps: null, a Date denoting the instant t, or a value new Date()  *)
(* cannot parse (an Invalid Date, whose comparisons are all false).        *)
(***************************************************************************)
NullTs == [kind |-> "null", t |-> 0]
DateTs(t) == [kind |-> "date", t |-> t]
InvalidTs == [kind |-> "invalid", t |-> 0]

\* new Date(scheduled_at) <= new Date()
NotAfterNow(ts, clock) == ts.kind = "date" /\ ts.t <= clock

(***************************************************************************)
(* validate() of the three entities: the error list, in the code's order.  *)
(***************************************************************************)
When(cond, msg) == IF cond THEN <<msg>> ELSE <<>>

ErrNombre == "El nombre debe tener al menos 2 caracteres"
ErrCorreo == "El correo electronico no es valido"
ErrPassword == "La contrasena debe tener al menos 6 caracteres"
ErrRol == "El rol debe ser admin o user"
ErrNombreLargo == "El nombre no puede exceder 80 caracteres"
ErrDescripcion == "La descripcion no puede exceder 255 caracteres"
ErrTextoCorto == "El texto debe tener al menos 10 caracteres"
ErrTextoLargo == "El texto no puede exceder 1000 caracteres"
ErrAutor == "El nombre del autor no puede exceder 120 caracteres"
ErrCreador == "Debe especificar el ID del usuario creador"
ErrCategoria == "Debe especificar el ID de la categoria"
ErrStatus == "El estado debe ser draft, scheduled o published"
ErrSinFecha == "Las frases programadas deben tener una fecha de publicacion"
ErrFechaPasada == "La fecha de publicacion programada debe ser futura"

Result(errors) == [isValid |-> errors = <<>>, errors |-> errors]

UsuarioValidate(u) ==
    Result(
        When(u.nombre = <<>> \/ Len(Trim(u.nombre)) < MinNombreLen, ErrNombre)
        \o When(u.correo_electronico = <<>> \/ ~isValidEmail(u.correo_electronico),
                ErrCorreo)
        \o When(CredLen(u.password_hash) = 0
                    \/ CredLen(u.password_hash) < MinPasswordLen, ErrPassword)
        \o When(u.rol \notin {"admin", "user"}, ErrRol))

CategoriaValidate(c) ==
    Result(
        When(c.nombre = <<>> \/ Len(Trim(c.nombre)) < MinNombreLen, ErrNombre)
        \o When(c.nombre # <<>> /\ Len(c.nombre) > MaxCategoriaNombreLen,
                ErrNombreLargo)
        \o When(c.descripcion # <<>> /\ Len(c.descripcion) > MaxDescripcionLen,
                ErrDescripcion))

\* a validator without the rule on the scheduled date
FraseValidateNoFuture(f, clock) ==
    Result(
        When(f.texto = <<>> \/ Len(Trim(f.texto)) < MinTextoLen, ErrTextoCorto)
        \o When(f.texto # <<>> /\ Len(f.texto) > MaxTextoLen, ErrTextoLargo)
        \o When(f.autor # <<>> /\ Len(f.autor) > MaxAutorLen, ErrAutor)
        \o When(f.creado_por = 0 \/ f.creado_por <= 0, ErrCreador)
        \o When(f.categoria_id = 0 \/ f.categoria_id <= 0, ErrCategoria)
        \o When(f.status \notin {"draft", "scheduled", "published"}, ErrStatus)
        \o When(f.status = "scheduled" /\ f.scheduled_at.kind = "null", ErrSinFecha))

FraseValidate(f, clock) ==
    Result(
        When(f.texto = <<>> \/ Len(Trim(f.texto)) < MinTextoLen, ErrTextoCorto)
        \o When(f.texto # <<>> /\ Len(f.texto) > MaxTextoLen, ErrTextoLargo)
        \o When(f.autor # <<>> /\ Len(f.autor) > MaxAutorLen, ErrAutor)
        \o When(f.creado_por = 0 \/ f.creado_por <= 0, ErrCreador)
        \o When(f.categoria_id = 0 \/ f.categoria_id <= 0, ErrCategoria)
        \o When(f.status \notin {"draft", "scheduled", "published"}, ErrStatus)
        \o When(f.status = "scheduled" /\ f.scheduled_at.kind = "null", ErrSinFecha)
        \o When(f.scheduled_at.kind # "null" /\ NotAfterNow(f.scheduled_at, clock),
                ErrFechaPasada))

(***************************************************************************)
(* Calls.  A call runs its synchronous prefix (guards, merge, validation,  *)
(* the submission of its first statement) in one step; each statement it   *)
(* awaits is executed by the connection in FIFO order, together with the   *)
(* continuation that follows the await.                                    *)
(***************************************************************************)
Instances == {"usr", "cat", "frs", "qry"}

NoStmt == [sql |-> "", params |-> <<>>]
Stmt(sql, params) == [sql |-> sql, params |-> params]

NoRes ==
    [kind |-> "none", type |-> "", messages |-> <<>>, numbers |-> <<>>,
     value |-> 0, rows |-> <<>>]
\* the call returned; value is affectedRows for delete() and 0 otherwise
Ok(value) == [NoRes EXCEPT !.kind = "ok", !.value = value]
\* the call returned the instances built from the rows of a SELECT
Found(rows) == [NoRes EXCEPT !.kind = "ok", !.rows = rows]
\* the call threw; messages are the texts the Error's message is made of,
\* numbers the numeric values interpolated into it (no message has any)
Err(type, messages) ==
    [NoRes EXCEPT !.kind = "error", !.type = type, !.messages = messages]

\* a handler without the guard on the identifier
SinIdNever(id) == FALSE

\* this.id === null
SinId(id) == id = 0

IdleTask ==
    [op |-> "", pc |-> "idle", stmt |-> NoStmt, sent |-> 0, res |-> NoRes,
     arg |-> 0, count |-> 0, refs |-> 0, call |-> 0, row |-> 0, link |-> 0]

\* the instances the run of a scenario operates on
Held(sc) ==
    IF sc = "usuario" THEN {"usr"}
    ELSE IF sc = "categoria" THEN {"cat", "frs"}
    ELSE IF sc = "frase" THEN {"frs"}
    ELSE {"usr", "cat", "qry"}

\* instance i has no call in flight
Idle(i) == i \in Held(scenario) /\ task[i].pc # "run"

\* the caller starts an operation on instance i
Begin(i) ==
    /\ Idle(i)
    /\ calls < MaxCalls
    /\ calls' = calls + 1

\* the call ends in its synchronous prefix with a thrown error
Thrown(op, arg, e) ==
    [IdleTask EXCEPT !.op = op, !.pc = "done", !.arg = arg, !.res = e,
                     !.call = calls + 1]

\* the call submits its first statement and awaits it
Awaiting(op, arg, st) ==
    [IdleTask EXCEPT !.op = op, !.pc = "run", !.arg = arg, !.stmt = st,
                     !.sent = 1, !.call = calls + 1]

\* the Database singleton after its constructor: no connection was made
NoConnection == [current |-> 0, made |-> 0, ended |-> {}]

\* mysql.createConnection resolved and this.connection was assigned
Opened(c) == [c EXCEPT !.current = c.made + 1, !.made = c.made + 1]

\* Database.query submits a statement: connect first when there is no
\* connection (the caller awaits each call before it starts the next)
Connected == IF connection.current = 0 THEN Opened(connection) ELSE connection

IsHead(i, sql) ==
    /\ queue # <<>>
    /\ Head(queue) = i
    /\ task[i].pc = "run"
    /\ task[i].stmt.sql = sql

\* the continuation after the awaited statement ends the call
Finish(i, r) == [task EXCEPT ![i].pc = "done", ![i].stmt = NoStmt, ![i].res = r]

\* the continuation submits the call's next statement
Continue(i, st) ==
    [task EXCEPT ![i].stmt = st, ![i].sent = task[i].sent + 1]

\* a merge that copies the identifier key like any other key
MergeEveryKey(inst, updateData, idKey) ==
    [k \in DOMAIN inst |->
        IF k \in DOMAIN updateData THEN updateData[k] ELSE inst[k]]

\* Object.keys(updateData).forEach(key => ... this[key] = updateData[key])
Merge(inst, updateData, idKey) ==
    [k \in DOMAIN inst |->
        IF k \in DOMAIN updateData /\ k # idKey THEN updateData[k] ELSE inst[k]]

\* a handler that reports only the first violated rule
JoinedErrorsFirst(v) == Err("validation", <<v.errors[1]>>)

\* throw new Error(`Datos invalidos: ${validation.errors.join(', ')}`)
JoinedErrors(v) == Err("validation", v.errors)

(***************************************************************************)
(* The store.  The schema is that of section 6 of the specification: the   *)
(* three tables, their AUTO_INCREMENT keys, the UNIQUE columns and the     *)
(* foreign keys of frase.                                                  *)
(***************************************************************************)
Tables == {"usuario", "categoria", "frase"}

RowsWhere(table, key, v) == {r \in table : r[key] = v}

UsuarioRow(id, p, clock) ==
    [id_user |-> id, nombre |-> p[1], correo_electronico |-> p[2],
     password_hash |-> p[3], fecha_creacion |-> DateTs(clock), rol |-> p[4]]

\* UNIQUE(correo_electronico)
DupCorreo(correo, exceptId) ==
    \E r \in usuario : r.correo_electronico = correo /\ r.id_user # exceptId

\* the rows of frase that reference a user or a category
FrasesDeUsuario(id) == RowsWhere(frase, "creado_por", id)
FrasesDeCategoria(id) == RowsWhere(frase, "categoria_id", id)

(***************************************************************************)
(* Usuario.                                                                *)
(***************************************************************************)
\* constructor(data): every missing or falsy field takes its default
UsuarioNew(data) ==
    [id_user |-> data.id_user, nombre |-> data.nombre,
     correo_electronico |-> data.correo_electronico,
     password_hash |-> data.password_hash,
     fecha_creacion |-> data.fecha_creacion,
     rol |-> IF data.rol = "" THEN "user" ELSE data.rol]

\* a serialization that copies every field of the instance
UsuarioToJSONEveryField(u) == u

\* toJSON(): the public fields of the instance
UsuarioToJSON(u) ==
    [id_user |-> u.id_user, nombre |-> u.nombre,
     correo_electronico |-> u.correo_electronico,
     fecha_creacion |-> u.fecha_creacion, rol |-> u.rol]

sAna == <<"A", "n", "a">>
sEva == <<"E", "v", "a">>
sA == <<"A">>
sPadded == <<" ", "A">>
eAna == <<"a", "@", "x", ".", "c">>
eEva == <<"e", "@", "x", ".", "c">>
eBad == <<"a", "@", "x">>
pShort == <<"a", "b", "c">>
pSecret == <<"s", "e", "c", "r", "e", "t">>
pOther == <<"o", "t", "h", "e", "r", "1", "2">>

UData(nombre, correo, cred, rol) ==
    [id_user |-> 0, nombre |-> nombre, correo_electronico |-> correo,
     password_hash |-> cred, fecha_creacion |-> NullTs, rol |-> rol]

\* the field values callers construct a Usuario from
UsuarioInputs ==
    { UData(sAna, eAna, NoCred, "user"),
      UData(sAna, eAna, PlainCred(pSecret), ""),
      UData(sEva, eEva, PlainCred(pOther), "admin"),
      UData(sA, eBad, NoCred, "root") }

Passwords == {pShort, pSecret}

\* the field sets callers pass to Usuario.update
UsuarioUpdates ==
    { [correo_electronico |-> eEva],
      [correo_electronico |-> eAna, nombre |-> sEva],
      [nombre |-> sA, rol |-> "root"],
      [id_user |-> 9, rol |-> "admin", password_hash |-> hashPassword(pOther, 0),
       fecha_creacion |-> DateTs(MaxTime + 1)] }

NewUsuario(data) ==
    /\ Idle("usr")
    /\ usr' = UsuarioNew(data)
    /\ task' = [task EXCEPT !["usr"] = IdleTask]
    /\ UNCHANGED <<scenario, console, now, connection, lastInsertId, nextId, usuario,
                   categoria, frase, cat, frs, queue, probe, onDelete, calls>>

\* Usuario.findById(id): new Usuario(results[0])
LoadUsuario(id) ==
    /\ Idle("usr")
    /\ \E r \in usuario :
        /\ r.id_user = id
        /\ usr' = UsuarioNew(r)
    /\ task' = [task EXCEPT !["usr"] = IdleTask]
    /\ connection' = Connected
    /\ UNCHANGED <<scenario, console, now, lastInsertId, nextId, usuario, categoria,
                   frase, cat, frs, queue, probe, onDelete, calls>>

\* create(password) up to the await of the INSERT
UsuarioCreate(password, salt) ==
    /\ Begin("usr")
    /\ LET v == UsuarioValidate(usr)
           hashed == [usr EXCEPT !.password_hash = hashPassword(password, salt)]
       IN  IF ~v.isValid
           THEN /\ task' = [task EXCEPT
                        !["usr"] = Thrown("create", password, JoinedErrors(v))]
                /\ UNCHANGED <<usr, queue, connection>>
           ELSE /\ usr' = hashed
                /\ task' = [task EXCEPT !["usr"] =
                        Awaiting("create", password,
                            Stmt("INSERT usuario",
                                 <<hashed.nombre, hashed.correo_electronico,
                                   hashed.password_hash, hashed.rol>>))]
                /\ queue' = Append(queue, "usr")
                /\ connection' = Connected
    /\ UNCHANGED <<scenario, console, now, lastInsertId, nextId, usuario, categoria,
                   frase, cat, frs, probe, onDelete>>

\* the INSERT runs; then create() awaits getLastInsertId(), or maps the error
ExecInsertUsuario ==
    /\ IsHead("usr", "INSERT usuario")
    /\ LET p == task["usr"].stmt.params
       IN  IF DupCorreo(p[2], 0)
           THEN /\ task' = Finish("usr", Err("duplicate",
                        <<"El correo electronico ya esta registrado">>))
                /\ queue' = Tail(queue)
                /\ UNCHANGED <<usuario, nextId, lastInsertId>>
           ELSE /\ usuario' = usuario \cup {UsuarioRow(nextId["usuario"], p, now)}
                /\ nextId' = [nextId EXCEPT !["usuario"] = @ + 1]
                /\ lastInsertId' = nextId["usuario"]
                /\ task' = [Continue("usr", Stmt("SELECT LAST_INSERT_ID", <<>>))
                            EXCEPT !["usr"].row = nextId["usuario"]]
                /\ queue' = Append(Tail(queue), "usr")
    /\ UNCHANGED <<scenario, console, now, connection, categoria, frase, usr, cat, frs,
                   probe, onDelete, calls>>

\* this.id_user = await db.getLastInsertId(); this.fecha_creacion = new Date()
ExecLastIdUsuario ==
    /\ IsHead("usr", "SELECT LAST_INSERT_ID")
    /\ usr' = [usr EXCEPT !.id_user = lastInsertId,
                          !.fecha_creacion = DateTs(now)]
    /\ task' = Finish("usr", Ok(0))
    /\ queue' = Tail(queue)
    /\ UNCHANGED <<scenario, console, now, connection, lastInsertId, nextId, usuario,
                   categoria, frase, cat, frs, probe, onDelete, calls>>

\* update(updateData) up to the await of the UPDATE
UsuarioUpdate(updateData) ==
    /\ Begin("usr")
    /\ IF SinId(usr.id_user)
       THEN /\ task' = [task EXCEPT !["usr"] = Thrown("update", 0,
                    Err("noid", <<"No se puede actualizar un usuario sin ID">>))]
            /\ UNCHANGED <<usr, queue, connection>>
       ELSE LET merged == Merge(usr, updateData, "id_user")
                v == UsuarioValidate(merged)
            IN  /\ usr' = merged
                /\ IF ~v.isValid
                   THEN /\ task' = [task EXCEPT !["usr"] =
                                Thrown("update", 0, JoinedErrors(v))]
                        /\ UNCHANGED <<queue, connection>>
                   ELSE /\ task' = [task EXCEPT !["usr"] =
                                Awaiting("update", 0,
                                    Stmt("UPDATE usuario",
                                         <<merged.nombre,
                                           merged.correo_electronico,
                                           merged.rol, merged.id_user>>))]
                        /\ queue' = Append(queue, "usr")
                        /\ connection' = Connected
    /\ UNCHANGED <<scenario, console, now, lastInsertId, nextId, usuario, categoria,
                   frase, cat, frs, probe, onDelete>>

\* an UPDATE whose duplicate-entry error reaches the caller as the store raised it
ExecUpdateUsuarioRaw ==
    /\ IsHead("usr", "UPDATE usuario")
    /\ LET p == task["usr"].stmt.params
       IN  IF RowsWhere(usuario, "id_user", p[4]) # {} /\ DupCorreo(p[2], p[4])
           THEN /\ task' = Finish("usr", Err("store", <<"ER_DUP_ENTRY">>))
                /\ UNCHANGED usuario
           ELSE /\ usuario' =
                    {IF r.id_user = p[4]
                        THEN [r EXCEPT !.nombre = p[1],
                                       !.correo_electronico = p[2],
                                       !.rol = p[3]]
                        ELSE r : r \in usuario}
                /\ task' = Finish("usr", Ok(0))
    /\ queue' = Tail(queue)
    /\ UNCHANGED <<scenario, console, now, connection, lastInsertId, nextId, categoria,
                   frase, usr, cat, frs, probe, onDelete, calls>>

\* UPDATE usuario SET nombre, correo_electronico, rol WHERE id_user
ExecUpdateUsuario ==
    /\ IsHead("usr", "UPDATE usuario")
    /\ LET p == task["usr"].stmt.params
       IN  IF RowsWhere(usuario, "id_user", p[4]) # {} /\ DupCorreo(p[2], p[4])
           THEN /\ task' = Finish("usr", Err("duplicate",
                        <<"El correo electronico ya esta registrado">>))
                /\ UNCHANGED usuario
           ELSE /\ usuario' =
                    {IF r.id_user = p[4]
                        THEN [r EXCEPT !.nombre = p[1],
                                       !.correo_electronico = p[2],
                                       !.rol = p[3]]
                        ELSE r : r \in usuario}
                /\ task' = Finish("usr", Ok(0))
    /\ queue' = Tail(queue)
    /\ UNCHANGED <<scenario, console, now, connection, lastInsertId, nextId, categoria,
                   frase, usr, cat, frs, probe, onDelete, calls>>

\* updatePassword(newPassword) up to the await of the UPDATE
UsuarioUpdatePassword(newPassword, salt) ==
    /\ Begin("usr")
    /\ IF SinId(usr.id_user)
       THEN /\ task' = [task EXCEPT !["usr"] =
                    Thrown("updatePassword", newPassword, Err("noid",
                        <<"No se puede actualizar la contrasena de un usuario sin ID">>))]
            /\ UNCHANGED <<queue, connection>>
       ELSE IF newPassword = <<>> \/ Len(newPassword) < MinPasswordLen
            THEN /\ task' = [task EXCEPT !["usr"] =
                        Thrown("updatePassword", newPassword,
                               Err("validation", <<ErrPassword>>))]
                 /\ UNCHANGED <<queue, connection>>
            ELSE /\ task' = [task EXCEPT !["usr"] =
                        Awaiting("updatePassword", newPassword,
                            Stmt("UPDATE usuario password",
                                 <<hashPassword(newPassword, salt),
                                   usr.id_user>>))]
                 /\ queue' = Append(queue, "usr")
                 /\ connection' = Connected
    /\ UNCHANGED <<scenario, console, now, lastInsertId, nextId, usuario, categoria,
                   frase, usr, cat, frs, probe, onDelete>>

\* an updatePassword() that persists the hash and keeps the instance's old one
ExecUpdatePasswordStoreOnly ==
    /\ IsHead("usr", "UPDATE usuario password")
    /\ LET p == task["usr"].stmt.params
       IN  usuario' = {IF r.id_user = p[2]
                         THEN [r EXCEPT !.password_hash = p[1]]
                         ELSE r : r \in usuario}
    /\ task' = Finish("usr", Ok(0))
    /\ queue' = Tail(queue)
    /\ UNCHANGED <<scenario, console, now, connection, lastInsertId, nextId, categoria,
                   frase, usr, cat, frs, probe, onDelete, calls>>

\* UPDATE usuario SET password_hash; then this.password_hash = hashedPassword
ExecUpdatePassword ==
    /\ IsHead("usr", "UPDATE usuario password")
    /\ LET p == task["usr"].stmt.params
       IN  /\ usuario' = {IF r.id_user = p[2]
                            THEN [r EXCEPT !.password_hash = p[1]]
                            ELSE r : r \in usuario}
           /\ usr' = [usr EXCEPT !.password_hash = p[1]]
    /\ task' = Finish("usr", Ok(0))
    /\ queue' = Tail(queue)
    /\ UNCHANGED <<scenario, console, now, connection, lastInsertId, nextId, categoria,
                   frase, cat, frs, probe, onDelete, calls>>

\* delete() up to the await of the DELETE
UsuarioDelete ==
    /\ Begin("usr")
    /\ IF SinId(usr.id_user)
       THEN /\ task' = [task EXCEPT !["usr"] = Thrown("delete", 0,
                    Err("noid", <<"No se puede eliminar un usuario sin ID">>))]
            /\ UNCHANGED <<queue, connection>>
       ELSE /\ task' = [task EXCEPT !["usr"] =
                    Awaiting("delete", 0,
                             Stmt("DELETE usuario", <<usr.id_user>>))]
            /\ queue' = Append(queue, "usr")
            /\ connection' = Connected
    /\ UNCHANGED <<scenario, console, now, lastInsertId, nextId, usuario, categoria,
                   frase, usr, cat, frs, probe, onDelete>>

\* a DELETE in a store that does not enforce the reference of frase to usuario
ExecDeleteUsuarioUnchecked ==
    /\ IsHead("usr", "DELETE usuario")
    /\ LET id == task["usr"].stmt.params[1]
           hit == RowsWhere(usuario, "id_user", id)
       IN  /\ usuario' = usuario \ hit
           /\ task' = Finish("usr", Ok(Cardinality(hit)))
    /\ queue' = Tail(queue)
    /\ UNCHANGED <<scenario, console, now, connection, lastInsertId, nextId, categoria,
                   frase, usr, cat, frs, probe, onDelete, calls>>

\* DELETE FROM usuario WHERE id_user; return result.affectedRows > 0
ExecDeleteUsuario ==
    /\ IsHead("usr", "DELETE usuario")
    /\ LET id == task["usr"].stmt.params[1]
           hit == RowsWhere(usuario, "id_user", id)
           refs == FrasesDeUsuario(id)
       IN  IF hit # {} /\ refs # {} /\ onDelete = "RESTRICT"
           THEN /\ task' = Finish("usr", Err("store", <<"ER_ROW_IS_REFERENCED_2">>))
                /\ UNCHANGED <<usuario, frase>>
           ELSE /\ usuario' = usuario \ hit
                /\ frase' = IF hit # {} THEN frase \ refs ELSE frase
                /\ task' = Finish("usr", Ok(Cardinality(hit)))
    /\ queue' = Tail(queue)
    /\ UNCHANGED <<scenario, console, now, connection, lastInsertId, nextId, categoria,
                   usr, cat, frs, probe, onDelete, calls>>

(***************************************************************************)
(* Categoria.                                                              *)
(***************************************************************************)
CategoriaNew(data) ==
    [id_category |-> data.id_category, nombre |-> data.nombre,
     descripcion |-> data.descripcion]

cHope == <<"H", "o", "p", "e">>
cJoy == <<"J", "o", "y">>
cH == <<"H">>

CData(nombre, descripcion) ==
    [id_category |-> 0, nombre |-> nombre, descripcion |-> descripcion]

\* the field values callers construct a Categoria from
CategoriaInputs ==
    { CData(cHope, <<>>),
      CData(cJoy, cHope),
      CData(cH, Rep("d", MaxDescripcionLen + 1)),
      CData(Rep("n", MaxCategoriaNombreLen + 1), <<>>) }

\* the field sets callers pass to Categoria.update
CategoriaUpdates ==
    { [nombre |-> cJoy],
      [nombre |-> cHope, descripcion |-> cJoy],
      [nombre |-> cH],
      [id_category |-> 9, descripcion |-> cHope] }

\* UNIQUE(nombre)
DupNombre(nombre, exceptId) ==
    \E r \in categoria : r.nombre = nombre /\ r.id_category # exceptId

NewCategoria(data) ==
    /\ Idle("cat")
    /\ cat' = CategoriaNew(data)
    /\ task' = [task EXCEPT !["cat"] = IdleTask]
    /\ UNCHANGED <<scenario, console, now, connection, lastInsertId, nextId, usuario,
                   categoria, frase, usr, frs, queue, probe, onDelete, calls>>

\* Categoria.findById(id): new Categoria(results[0])
LoadCategoria(id) ==
    /\ Idle("cat")
    /\ \E r \in categoria :
        /\ r.id_category = id
        /\ cat' = CategoriaNew(r)
    /\ task' = [task EXCEPT !["cat"] = IdleTask]
    /\ connection' = Connected
    /\ UNCHANGED <<scenario, console, now, lastInsertId, nextId, usuario, categoria,
                   frase, usr, frs, queue, probe, onDelete, calls>>

\* create() up to the await of the INSERT
CategoriaCreate ==
    /\ Begin("cat")
    /\ LET v == CategoriaValidate(cat)
       IN  IF ~v.isValid
           THEN /\ task' = [task EXCEPT
                        !["cat"] = Thrown("create", 0, JoinedErrors(v))]
                /\ UNCHANGED <<queue, connection>>
           ELSE /\ task' = [task EXCEPT !["cat"] =
                        Awaiting("create", 0,
                            Stmt("INSERT categoria",
                                 <<cat.nombre, cat.descripcion>>))]
                /\ queue' = Append(queue, "cat")
                /\ connection' = Connected
    /\ UNCHANGED <<scenario, console, now, lastInsertId, nextId, usuario, categoria,
                   frase, usr, cat, frs, probe, onDelete>>

ExecInsertCategoria ==
    /\ IsHead("cat", "INSERT categoria")
    /\ LET p == task["cat"].stmt.params
       IN  IF DupNombre(p[1], 0)
           THEN /\ task' = Finish("cat", Err("duplicate",
                        <<"Ya existe una categoria con ese nombre">>))
                /\ queue' = Tail(queue)
                /\ UNCHANGED <<categoria, nextId, lastInsertId>>
           ELSE /\ categoria' = categoria \cup
                        {[id_category |-> nextId["categoria"],
                          nombre |-> p[1], descripcion |-> p[2]]}
                /\ nextId' = [nextId EXCEPT !["categoria"] = @ + 1]
                /\ lastInsertId' = nextId["categoria"]
                /\ task' = [Continue("cat", Stmt("SELECT LAST_INSERT_ID", <<>>))
                            EXCEPT !["cat"].row = nextId["categoria"]]
                /\ queue' = Append(Tail(queue), "cat")
    /\ UNCHANGED <<scenario, console, now, connection, usuario, frase, usr, cat, frs,
                   probe, onDelete, calls>>

\* this.id_category = await db.getLastInsertId()
ExecLastIdCategoria ==
    /\ IsHead("cat", "SELECT LAST_INSERT_ID")
    /\ cat' = [cat EXCEPT !.id_category = lastInsertId]
    /\ task' = Finish("cat", Ok(0))
    /\ queue' = Tail(queue)
    /\ UNCHANGED <<scenario, console, now, connection, lastInsertId, nextId, usuario,
                   categoria, frase, usr, frs, probe, onDelete, calls>>

\* update(updateData) up to the await of the UPDATE
CategoriaUpdate(updateData) ==
    /\ Begin("cat")
    /\ IF SinId(cat.id_category)
       THEN /\ task' = [task EXCEPT !["cat"] = Thrown("update", 0,
                    Err("noid", <<"No se puede actualizar una categoria sin ID">>))]
            /\ UNCHANGED <<cat, queue, connection>>
       ELSE LET merged == Merge(cat, updateData, "id_category")
                v == CategoriaValidate(merged)
            IN  /\ cat' = merged
                /\ IF ~v.isValid
                   THEN /\ task' = [task EXCEPT !["cat"] =
                                Thrown("update", 0, JoinedErrors(v))]
                        /\ UNCHANGED <<queue, connection>>
                   ELSE /\ task' = [task EXCEPT !["cat"] =
                                Awaiting("update", 0,
                                    Stmt("UPDATE categoria",
                                         <<merged.nombre, merged.descripcion,
                                           merged.id_category>>))]
                        /\ queue' = Append(queue, "cat")
                        /\ connection' = Connected
    /\ UNCHANGED <<scenario, console, now, lastInsertId, nextId, usuario, categoria,
                   frase, usr, frs, probe, onDelete>>

\* UPDATE categoria SET nombre, descripcion WHERE id_category
ExecUpdateCategoria ==
    /\ IsHead("cat", "UPDATE categoria")
    /\ LET p == task["cat"].stmt.params
       IN  IF RowsWhere(categoria, "id_category", p[3]) # {} /\ DupNombre(p[1], p[3])
           THEN /\ task' = Finish("cat", Err("duplicate",
                        <<"Ya existe una categoria con ese nombre">>))
                /\ UNCHANGED categoria
           ELSE /\ categoria' =
                    {IF r.id_category = p[3]
                        THEN [r EXCEPT !.nombre = p[1], !.descripcion = p[2]]
                        ELSE r : r \in categoria}
                /\ task' = Finish("cat", Ok(0))
    /\ queue' = Tail(queue)
    /\ UNCHANGED <<scenario, console, now, connection, lastInsertId, nextId, usuario,
                   frase, usr, cat, frs, probe, onDelete, calls>>

\* delete(forceDelete) up to its first await: the COUNT, or the DELETE when forced
CategoriaDelete(forceDelete) ==
    /\ Begin("cat")
    /\ IF SinId(cat.id_category)
       THEN /\ task' = [task EXCEPT !["cat"] = Thrown("delete", forceDelete,
                    Err("noid", <<"No se puede eliminar una categoria sin ID">>))]
            /\ UNCHANGED <<queue, connection>>
       ELSE /\ task' = [task EXCEPT !["cat"] =
                    Awaiting("delete", forceDelete,
                        IF forceDelete
                        THEN Stmt("DELETE categoria", <<cat.id_category>>)
                        ELSE Stmt("SELECT COUNT frase", <<cat.id_category>>))]
            /\ queue' = Append(queue, "cat")
            /\ connection' = Connected
    /\ UNCHANGED <<scenario, console, now, lastInsertId, nextId, usuario, categoria,
                   frase, usr, cat, frs, probe, onDelete>>

\* a count check that lets a single referencing quote through
ExecCountFrasesOverOne ==
    /\ IsHead("cat", "SELECT COUNT frase")
    /\ LET id == task["cat"].stmt.params[1]
           n == Cardinality(FrasesDeCategoria(id))
       IN  IF n > 1
           THEN /\ task' = [Finish("cat", Err("dependency",
                        <<"No se puede eliminar la categoria porque tiene frases asociadas">>))
                            EXCEPT !["cat"].count = n]
                /\ queue' = Tail(queue)
           ELSE /\ task' = [Continue("cat", Stmt("DELETE categoria", <<id>>))
                            EXCEPT !["cat"].count = n]
                /\ queue' = Append(Tail(queue), "cat")
    /\ UNCHANGED <<scenario, console, now, connection, lastInsertId, nextId, usuario,
                   categoria, frase, usr, cat, frs, probe, onDelete, calls>>

\* countResult[0].count > 0 throws; otherwise the DELETE is submitted
ExecCountFrases ==
    /\ IsHead("cat", "SELECT COUNT frase")
    /\ LET id == task["cat"].stmt.params[1]
           n == Cardinality(FrasesDeCategoria(id))
       IN  IF n > 0
           THEN /\ task' = [Finish("cat", Err("dependency",
                        <<"No se puede eliminar la categoria porque tiene frases asociadas">>))
                            EXCEPT !["cat"].count = n]
                /\ queue' = Tail(queue)
           ELSE /\ task' = [Continue("cat", Stmt("DELETE categoria", <<id>>))
                            EXCEPT !["cat"].count = n]
                /\ queue' = Append(Tail(queue), "cat")
    /\ UNCHANGED <<scenario, console, now, connection, lastInsertId, nextId, usuario,
                   categoria, frase, usr, cat, frs, probe, onDelete, calls>>

\* DELETE FROM categoria WHERE id_category; return result.affectedRows > 0
ExecDeleteCategoria ==
    /\ IsHead("cat", "DELETE categoria")
    /\ LET id == task["cat"].stmt.params[1]
           hit == RowsWhere(categoria, "id_category", id)
           refs == FrasesDeCategoria(id)
       IN  IF hit # {} /\ refs # {} /\ onDelete = "RESTRICT"
           THEN /\ task' = [Finish("cat", Err("store", <<"ER_ROW_IS_REFERENCED_2">>))
                            EXCEPT !["cat"].refs = Cardinality(refs)]
                /\ UNCHANGED <<categoria, frase>>
           ELSE /\ categoria' = categoria \ hit
                /\ frase' = IF hit # {} THEN frase \ refs ELSE frase
                /\ task' = [Finish("cat", Ok(Cardinality(hit)))
                            EXCEPT !["cat"].refs = Cardinality(refs)]
    /\ queue' = Tail(queue)
    /\ UNCHANGED <<scenario, console, now, connection, lastInsertId, nextId, usuario,
                   usr, cat, frs, probe, onDelete, calls>>

(***************************************************************************)
(* Frase.                                                                  *)
(***************************************************************************)
FraseNew(data) ==
    [id_quote |-> data.id_quote, texto |-> data.texto, autor |-> data.autor,
     fecha_creacion |-> data.fecha_creacion,
     scheduled_at |-> data.scheduled_at,
     status |-> IF data.status = "" THEN "draft" ELSE data.status,
     creado_por |-> data.creado_por, categoria_id |-> data.categoria_id]

tGift == <<"E", "v", "e", "r", "y", " ", "d", "a", "y", " ", "g", "i", "f", "t">>
tHope == <<"H", "o", "p", "e", " ", "h", "e", "a", "l", "s">>
tShort == <<"T", "o", "o", " ", "s", "h", "o", "r", "t">>

FData(texto, autor, ts, status, creador, categ) ==
    [id_quote |-> 0, texto |-> texto, autor |-> autor, fecha_creacion |-> NullTs,
     scheduled_at |-> ts, status |-> status, creado_por |-> creador,
     categoria_id |-> categ]

\* the field values callers construct a Frase from
FraseInputs ==
    IF scenario = "categoria"
    THEN { FData(tGift, <<>>, NullTs, "", 1, 1),
           FData(tHope, <<>>, NullTs, "published", 1, 2) }
    ELSE { FData(tGift, <<>>, NullTs, "", 1, 1),
           FData(tGift, sAna, DateTs(1), "scheduled", 1, 1),
           FData(tHope, <<>>, DateTs(MaxTime + 1), "draft", 1, 1),
           FData(tGift, <<>>, NullTs, "scheduled", 1, 1),
           FData(tShort, <<>>, NullTs, "archived", 0, 0),
           FData(tGift, <<>>, NullTs, "published", 7, 1) }

\* the field sets callers pass to Frase.update
FraseUpdates ==
    IF scenario = "categoria"
    THEN { [categoria_id |-> 1], [categoria_id |-> 2] }
    ELSE { [texto |-> tHope],
           [texto |-> tShort, scheduled_at |-> NullTs],
           [id_quote |-> 9, texto |-> tHope, status |-> "scheduled"],
           [scheduled_at |-> DateTs(MaxTime + 1)],
           [categoria_id |-> 7],
           [creado_por |-> 7],
           [texto |-> tShort, scheduled_at |-> DateTs(MaxTime + 1)] }

\* the dates callers pass to Frase.schedule
ScheduleDates == {DateTs(1), DateTs(MaxTime + 1)}

NewFrase(data) ==
    /\ scenario = "categoria"
    /\ Idle("frs")
    /\ frs' = FraseNew(data)
    /\ task' = [task EXCEPT !["frs"] = IdleTask]
    /\ UNCHANGED <<scenario, console, now, connection, lastInsertId, nextId, usuario,
                   categoria, frase, usr, cat, queue, probe, onDelete, calls>>

\* Frase.findById(id, false): new Frase(results[0])
LoadFrase(id) ==
    /\ scenario = "frase"
    /\ Idle("frs")
    /\ \E r \in frase :
        /\ r.id_quote = id
        /\ frs' = FraseNew(r)
    /\ task' = [task EXCEPT !["frs"] = IdleTask]
    /\ connection' = Connected
    /\ UNCHANGED <<scenario, console, now, lastInsertId, nextId, usuario, categoria,
                   frase, usr, cat, queue, probe, onDelete, calls>>

\* create() up to the await of the INSERT
FraseCreate ==
    /\ Begin("frs")
    /\ LET v == FraseValidate(frs, now)
       IN  IF ~v.isValid
           THEN /\ task' = [task EXCEPT
                        !["frs"] = Thrown("create", 0, JoinedErrors(v))]
                /\ UNCHANGED <<queue, connection>>
           ELSE /\ task' = [task EXCEPT !["frs"] =
                        Awaiting("create", 0,
                            Stmt("INSERT frase",
                                 <<frs.texto, frs.autor, frs.scheduled_at,
                                   frs.status, frs.creado_por,
                                   frs.categoria_id>>))]
                /\ queue' = Append(queue, "frs")
                /\ connection' = Connected
    /\ UNCHANGED <<scenario, console, now, lastInsertId, nextId, usuario, categoria,
                   frase, usr, cat, frs, probe, onDelete>>

\* FOREIGN KEY (creado_por), FOREIGN KEY (categoria_id)
HasUsuario(id) == RowsWhere(usuario, "id_user", id) # {}
HasCategoria(id) == RowsWhere(categoria, "id_category", id) # {}

ErrReferencia == Err("reference", <<"El usuario o categoria especificados no existen">>)

ExecInsertFrase ==
    /\ IsHead("frs", "INSERT frase")
    /\ LET p == task["frs"].stmt.params
       IN  IF ~HasUsuario(p[5]) \/ ~HasCategoria(p[6])
           THEN /\ task' = Finish("frs", ErrReferencia)
                /\ queue' = Tail(queue)
                /\ UNCHANGED <<frase, nextId, lastInsertId>>
           ELSE /\ frase' = frase \cup
                        {[id_quote |-> nextId["frase"], texto |-> p[1],
                          autor |-> p[2], fecha_creacion |-> DateTs(now),
                          scheduled_at |-> p[3], status |-> p[4],
                          creado_por |-> p[5], categoria_id |-> p[6]]}
                /\ nextId' = [nextId EXCEPT !["frase"] = @ + 1]
                /\ lastInsertId' = nextId["frase"]
                /\ task' = [Continue("frs", Stmt("SELECT LAST_INSERT_ID", <<>>))
                            EXCEPT !["frs"].row = nextId["frase"]]
                /\ queue' = Append(Tail(queue), "frs")
    /\ UNCHANGED <<scenario, console, now, connection, usuario, categoria, usr, cat,
                   frs, probe, onDelete, calls>>

\* this.id_quote = await db.getLastInsertId(); this.fecha_creacion = new Date()
ExecLastIdFrase ==
    /\ IsHead("frs", "SELECT LAST_INSERT_ID")
    /\ frs' = [frs EXCEPT !.id_quote = lastInsertId,
                          !.fecha_creacion = DateTs(now)]
    /\ task' = Finish("frs", Ok(0))
    /\ queue' = Tail(queue)
    /\ UNCHANGED <<scenario, console, now, connection, lastInsertId, nextId, usuario,
                   categoria, frase, usr, cat, probe, onDelete, calls>>

\* an update() that validates the merged fields before it assigns them
FraseUpdateCallValidateFirst(op, arg, updateData) ==
    /\ Begin("frs")
    /\ IF SinId(frs.id_quote)
       THEN /\ task' = [task EXCEPT !["frs"] = Thrown(op, arg,
                    Err("noid", <<"No se puede actualizar una frase sin ID">>))]
            /\ UNCHANGED <<frs, queue, connection>>
       ELSE LET merged == Merge(frs, updateData, "id_quote")
                v == FraseValidate(merged, now)
            IN  IF ~v.isValid
                THEN /\ task' = [task EXCEPT !["frs"] =
                             Thrown(op, arg, JoinedErrors(v))]
                     /\ UNCHANGED <<frs, queue, connection>>
                ELSE /\ frs' = merged
                     /\ task' = [task EXCEPT !["frs"] =
                             Awaiting(op, arg,
                                 Stmt("UPDATE frase",
                                      <<merged.texto, merged.autor,
                                        merged.scheduled_at, merged.status,
                                        merged.categoria_id,
                                        merged.id_quote>>))]
                     /\ queue' = Append(queue, "frs")
                     /\ connection' = Connected
    /\ UNCHANGED <<scenario, console, now, lastInsertId, nextId, usuario,
                   categoria, frase, usr, cat, probe, onDelete>>

\* update(updateData) up to the await of the UPDATE, called as op
FraseUpdateCall(op, arg, updateData) ==
    /\ Begin("frs")
    /\ IF SinId(frs.id_quote)
       THEN /\ task' = [task EXCEPT !["frs"] = Thrown(op, arg,
                    Err("noid", <<"No se puede actualizar una frase sin ID">>))]
            /\ UNCHANGED <<frs, queue, connection>>
       ELSE LET merged == Merge(frs, updateData, "id_quote")
                v == FraseValidate(merged, now)
            IN  /\ frs' = merged
                /\ IF ~v.isValid
                   THEN /\ task' = [task EXCEPT !["frs"] =
                                Thrown(op, arg, JoinedErrors(v))]
                        /\ UNCHANGED <<queue, connection>>
                   ELSE /\ task' = [task EXCEPT !["frs"] =
                                Awaiting(op, arg,
                                    Stmt("UPDATE frase",
                                         <<merged.texto, merged.autor,
                                           merged.scheduled_at, merged.status,
                                           merged.categoria_id,
                                           merged.id_quote>>))]
                        /\ queue' = Append(queue, "frs")
                        /\ connection' = Connected
    /\ UNCHANGED <<scenario, console, now, lastInsertId, nextId, usuario, categoria,
                   frase, usr, cat, probe, onDelete>>

FraseUpdate(updateData) == FraseUpdateCall("update", 0, updateData)

\* a publish() that keeps the scheduled date
FrasePublishKeepDate ==
    /\ scenario = "frase"
    /\ FraseUpdateCall("publish", 0, [status |-> "published"])

\* publish(): update({status: 'published', scheduled_at: null})
FrasePublish ==
    /\ scenario = "frase"
    /\ FraseUpdateCall("publish", 0,
                       [status |-> "published", scheduled_at |-> NullTs])

\* a schedule() that sets the date and keeps the status
FraseScheduleKeepStatus(scheduledDate) ==
    /\ scenario = "frase"
    /\ FraseUpdateCall("schedule", 0, [scheduled_at |-> scheduledDate])

\* schedule(scheduledDate): update({status: 'scheduled', scheduled_at})
FraseSchedule(scheduledDate) ==
    /\ scenario = "frase"
    /\ FraseUpdateCall("schedule", 0,
                       [status |-> "scheduled", scheduled_at |-> scheduledDate])

\* a draft() that keeps the scheduled date
FraseDraftKeepDate ==
    /\ scenario = "frase"
    /\ FraseUpdateCall("draft", 0, [status |-> "draft"])

\* draft(): update({status: 'draft', scheduled_at: null})
FraseDraft ==
    /\ scenario = "frase"
    /\ FraseUpdateCall("draft", 0, [status |-> "draft", scheduled_at |-> NullTs])

\* UPDATE frase SET texto, autor, scheduled_at, status, categoria_id WHERE id_quote
\* an UPDATE that leaves the scheduled_at column out
ExecUpdateFraseKeepDate ==
    /\ IsHead("frs", "UPDATE frase")
    /\ LET p == task["frs"].stmt.params
       IN  IF RowsWhere(frase, "id_quote", p[6]) # {} /\ ~HasCategoria(p[5])
           THEN /\ task' = Finish("frs", ErrReferencia)
                /\ UNCHANGED frase
           ELSE /\ frase' =
                    {IF r.id_quote = p[6]
                        THEN [r EXCEPT !.texto = p[1], !.autor = p[2],
                                       !.status = p[4], !.categoria_id = p[5]]
                        ELSE r : r \in frase}
                /\ task' = Finish("frs", Ok(0))
    /\ queue' = Tail(queue)
    /\ UNCHANGED <<scenario, console, now, connection, lastInsertId, nextId, usuario,
                   categoria, usr, cat, frs, probe, onDelete, calls>>

ExecUpdateFrase ==
    /\ IsHead("frs", "UPDATE frase")
    /\ LET p == task["frs"].stmt.params
       IN  IF RowsWhere(frase, "id_quote", p[6]) # {} /\ ~HasCategoria(p[5])
           THEN /\ task' = Finish("frs", ErrReferencia)
                /\ UNCHANGED frase
           ELSE /\ frase' =
                    {IF r.id_quote = p[6]
                        THEN [r EXCEPT !.texto = p[1], !.autor = p[2],
                                       !.scheduled_at = p[3], !.status = p[4],
                                       !.categoria_id = p[5]]
                        ELSE r : r \in frase}
                /\ task' = Finish("frs", Ok(0))
    /\ queue' = Tail(queue)
    /\ UNCHANGED <<scenario, console, now, connection, lastInsertId, nextId, usuario,
                   categoria, usr, cat, frs, probe, onDelete, calls>>

\* delete() up to the await of the DELETE
FraseDelete ==
    /\ scenario = "frase"
    /\ Begin("frs")
    /\ IF SinId(frs.id_quote)
       THEN /\ task' = [task EXCEPT !["frs"] = Thrown("delete", 0,
                    Err("noid", <<"No se puede eliminar una frase sin ID">>))]
            /\ UNCHANGED <<queue, connection>>
       ELSE /\ task' = [task EXCEPT !["frs"] =
                    Awaiting("delete", 0, Stmt("DELETE frase", <<frs.id_quote>>))]
            /\ queue' = Append(queue, "frs")
            /\ connection' = Connected
    /\ UNCHANGED <<scenario, console, now, lastInsertId, nextId, usuario, categoria,
                   frase, usr, cat, frs, probe, onDelete>>

\* a delete() that clears the identifier of the instance
ExecDeleteFraseForget ==
    /\ IsHead("frs", "DELETE frase")
    /\ LET hit == RowsWhere(frase, "id_quote", task["frs"].stmt.params[1])
       IN  /\ frase' = frase \ hit
           /\ task' = Finish("frs", Ok(Cardinality(hit)))
    /\ frs' = [frs EXCEPT !.id_quote = 0]
    /\ queue' = Tail(queue)
    /\ UNCHANGED <<scenario, console, now, connection, lastInsertId, nextId,
                   usuario, categoria, usr, cat, probe, onDelete, calls>>

\* DELETE FROM frase WHERE id_quote; return result.affectedRows > 0
ExecDeleteFrase ==
    /\ IsHead("frs", "DELETE frase")
    /\ LET hit == RowsWhere(frase, "id_quote", task["frs"].stmt.params[1])
       IN  /\ frase' = frase \ hit
           /\ task' = Finish("frs", Ok(Cardinality(hit)))
    /\ queue' = Tail(queue)
    /\ UNCHANGED <<scenario, console, now, connection, lastInsertId, nextId, usuario,
                   categoria, usr, cat, frs, probe, onDelete, calls>>

(***************************************************************************)
(* Queries.  The static finders submit one SELECT and build instances from *)
(* its rows.                                                               *)
(***************************************************************************)
\* the case folding of the column collation, on the letters of the inputs
Lower(c) ==
    CASE c = "A" -> "a"
      [] c = "E" -> "e"
      [] c = "H" -> "h"
      [] c = "J" -> "j"
      [] c = "T" -> "t"
      [] OTHER -> c

\* s from position j on matches the pattern p from position i on
RECURSIVE LikeFrom(_, _, _, _)
LikeFrom(p, i, s, j) ==
    IF i > Len(p) THEN j > Len(s)
    ELSE IF p[i] = "%"
         THEN \/ i = Len(p)
              \/ LikeFrom(p, i + 1, s, j)
              \/ (j <= Len(s) /\ LikeFrom(p, i, s, j + 1))
    ELSE IF p[i] = "_"
         THEN j <= Len(s) /\ LikeFrom(p, i + 1, s, j + 1)
    ELSE /\ j <= Len(s)
         /\ Lower(p[i]) = Lower(s[j])
         /\ LikeFrom(p, i + 1, s, j + 1)

\* s LIKE p: % matches any run of characters, _ any one character
Like(p, s) == LikeFrom(p, 1, s, 1)

\* const searchPattern = `%${filters.search}%`
SearchPattern(search) == <<"%">> \o search \o <<"%">>

NoFilters == [status |-> "", categoria_id |-> 0, creado_por |-> 0, search |-> <<>>]

\* the WHERE clause findAll and count build from the filters that are truthy
Matches(r, filters) ==
    /\ filters.status # "" => r.status = filters.status
    /\ filters.categoria_id # 0 => r.categoria_id = filters.categoria_id
    /\ filters.creado_por # 0 => r.creado_por = filters.creado_por
    /\ filters.search # <<>>
        => \/ Like(SearchPattern(filters.search), r.texto)
           \/ Like(SearchPattern(filters.search), r.autor)

\* frase f JOIN usuario u ON f.creado_por = u.id_user
\*         JOIN categoria c ON f.categoria_id = c.id_category
Joined == {r \in frase : HasUsuario(r.creado_por) /\ HasCategoria(r.categoria_id)}

\* the orders in which ORDER BY key (DESC when desc) can return the rows
RECURSIVE Ordered(_, _, _)
Ordered(rows, key, desc) ==
    IF rows = {} THEN {<<>>}
    ELSE UNION { {<<r>> \o rest : rest \in Ordered(rows \ {r}, key, desc)} :
                 r \in {x \in rows : \A y \in rows :
                            IF desc THEN x[key].t >= y[key].t
                                    ELSE x[key].t <= y[key].t} }

\* LIMIT ? OFFSET ?
Page(rows, limit, offset) ==
    SubSeq(rows, offset + 1,
           IF offset + limit < Len(rows) THEN offset + limit ELSE Len(rows))

\* results.map(row => new Frase(row))
Instantiated(rows) == [k \in 1..Len(rows) |-> FraseNew(rows[k])]

\* what findAll(filters, limit, offset) can return in the current store
FindAllResults(filters, limit, offset) ==
    { Instantiated(Page(rows, limit, offset)) :
        rows \in Ordered({r \in Joined : Matches(r, filters)},
                         "fecha_creacion", TRUE) }

\* SELECT COUNT(*) as total FROM frase WHERE ...
CountRows(filters) == Cardinality({r \in frase : Matches(r, filters)})

\* what findById(id) returns: the instance of the joined row, if there is one
FraseFindById(id) == {FraseNew(r) : r \in {x \in Joined : x.id_quote = id}}

\* the rows a finder without the condition on the date would select
ScheduledRows == {r \in Joined : r.status = "scheduled"}

\* WHERE f.status = 'scheduled' AND f.scheduled_at <= NOW()
DueRows ==
    {r \in Joined : r.status = "scheduled" /\ NotAfterNow(r.scheduled_at, now)}

\* SELECT * FROM usuario WHERE correo_electronico = ?
FindByEmail(email) == RowsWhere(usuario, "correo_electronico", email)

\* the combinations of filters
Filters ==
    { [status |-> st, categoria_id |-> c, creado_por |-> u, search |-> q] :
        st \in {"", "published"}, c \in {0, 1}, u \in {0, 2},
        q \in {<<>>, <<"h", "o", "p", "e">>, <<"_">>} }

\* the filter objects and pages the callers pass
Asked ==
    { NoFilters,
      [NoFilters EXCEPT !.status = "published"],
      [NoFilters EXCEPT !.categoria_id = 1, !.creado_por = 2],
      [NoFilters EXCEPT !.search = <<"h", "o", "p", "e">>],
      [NoFilters EXCEPT !.search = <<"_">>],
      [status |-> "published", categoria_id |-> 1, creado_por |-> 2,
       search |-> <<"h", "o", "p", "e">>] }

Pages == {<<DefaultLimit, 0>>, <<1, 1>>}

\* a static finder up to the await of its SELECT
Query(op, arg, st) ==
    /\ Begin("qry")
    /\ task' = [task EXCEPT !["qry"] = Awaiting(op, arg, st)]
    /\ queue' = Append(queue, "qry")
    /\ connection' = Connected
    /\ UNCHANGED <<scenario, console, now, lastInsertId, nextId, usuario, categoria,
                   frase, usr, cat, frs, probe, onDelete>>

\* the SELECT of a static finder runs and the finder returns r
Answer(r) ==
    /\ task' = Finish("qry", r)
    /\ queue' = Tail(queue)
    /\ UNCHANGED <<scenario, console, now, connection, lastInsertId, nextId, usuario,
                   categoria, frase, usr, cat, frs, probe, onDelete, calls>>

FraseFindAll(filters, limit, offset) ==
    /\ scenario = "consulta"
    /\ Query("findAll", filters, Stmt("SELECT frase", <<filters, limit, offset>>))

\* findPublished(limit, offset): findAll({status: 'published'}, limit, offset)
FraseFindPublished(limit, offset) ==
    /\ scenario = "consulta"
    /\ Query("findPublished", 0,
             Stmt("SELECT frase",
                  <<[NoFilters EXCEPT !.status = "published"], limit, offset>>))

ExecFindAll ==
    /\ IsHead("qry", "SELECT frase")
    /\ \E rows \in FindAllResults(task["qry"].stmt.params[1],
                                  task["qry"].stmt.params[2],
                                  task["qry"].stmt.params[3]) :
           Answer(Found(rows))

FraseCount(filters) ==
    /\ scenario = "consulta"
    /\ Query("count", filters, Stmt("SELECT COUNT frase WHERE", <<filters>>))

ExecCount ==
    /\ IsHead("qry", "SELECT COUNT frase WHERE")
    /\ Answer(Ok(CountRows(task["qry"].stmt.params[1])))

FraseFindScheduled ==
    /\ scenario = "consulta"
    /\ Query("findScheduled", 0, Stmt("SELECT frase due", <<>>))

ExecFindScheduled ==
    /\ IsHead("qry", "SELECT frase due")
    /\ \E rows \in Ordered(DueRows, "scheduled_at", FALSE) :
           Answer(Found(Instantiated(rows)))

\* authenticate(email, password): findByEmail(email), then verifyPassword
UsuarioAuthenticate(email, password) ==
    /\ scenario = "consulta"
    /\ Query("authenticate", password,
             Stmt("SELECT usuario WHERE correo", <<email>>))

ExecAuthenticate ==
    /\ IsHead("qry", "SELECT usuario WHERE correo")
    /\ LET hit == FindByEmail(task["qry"].stmt.params[1])
       IN  Answer(IF hit = {} THEN Found(<<>>)
                  ELSE LET r == CHOOSE x \in hit : TRUE
                       IN  IF verifyPassword(task["qry"].arg, r.password_hash)
                           THEN Found(<<UsuarioNew(r)>>)
                           ELSE Found(<<>>))

\* time passes
Tick ==
    /\ scenario \in {"frase", "consulta"}
    /\ now < MaxTime
    /\ now' = now + 1
    /\ UNCHANGED <<scenario, console, connection, lastInsertId, nextId, usuario,
                   categoria, frase, usr, cat, frs, task, queue, probe, onDelete, calls>>

(***************************************************************************)
(* The runs.  A run exercises one entity class: the Usuario API, the       *)
(* Categoria API beside Frase writes to its categories, or the Frase API   *)
(* while time passes.  The store starts with what the class needs: a user  *)
(* and a category for quotes to reference.  A Frase run follows one        *)
(* instance, constructed from the caller's field values, through its life. *)
(***************************************************************************)
Scenarios == {"usuario", "categoria", "frase"}

SeedUsuario ==
    [id_user |-> 1, nombre |-> sAna, correo_electronico |-> eAna,
     password_hash |-> hashPassword(pSecret, 1), fecha_creacion |-> DateTs(0),
     rol |-> "user"]

SeedCategoria == [id_category |-> 1, nombre |-> cHope, descripcion |-> <<>>]

SeedEva ==
    [id_user |-> 2, nombre |-> sEva, correo_electronico |-> eEva,
     password_hash |-> hashPassword(pOther, 1), fecha_creacion |-> DateTs(0),
     rol |-> "admin"]

SeedJoy == [id_category |-> 2, nombre |-> cJoy, descripcion |-> <<>>]

FRow(id, texto, autor, creada, ts, status, creador, categ) ==
    [id_quote |-> id, texto |-> texto, autor |-> autor,
     fecha_creacion |-> DateTs(creada), scheduled_at |-> ts, status |-> status,
     creado_por |-> creador, categoria_id |-> categ]

\* the quotes of the queried store, written at the instants 0 and 1
SeedFrases ==
    { FRow(1, tGift, <<>>, 0, NullTs, "published", 1, 1),
      FRow(2, tHope, sAna, 0, DateTs(1), "scheduled", 2, 1),
      FRow(3, tGift, <<>>, 1, DateTs(2), "scheduled", 1, 2),
      FRow(4, tGift, cHope, 1, NullTs, "published", 2, 2) }

NoProbe == [entity |-> "", result |-> Result(<<>>)]

\* the console is not running
NoConsole ==
    [pc |-> "", choice |-> "", handler |-> "", count |-> 0,
     confirm |-> FALSE, forceDelete |-> FALSE, call |-> "", arg |-> FALSE]

Init ==
    /\ scenario \in Scenarios
    /\ now = 0
    /\ connection = NoConnection
    /\ lastInsertId = 0
    /\ usuario = IF scenario = "usuario" THEN {} ELSE {SeedUsuario}
    /\ categoria = IF scenario = "usuario" THEN {} ELSE {SeedCategoria}
    /\ frase = {}
    /\ nextId = [t \in Tables |->
                    IF t # "frase" /\ scenario # "usuario" THEN 2 ELSE 1]
    /\ usr = UsuarioNew(UData(<<>>, <<>>, NoCred, ""))
    /\ cat = CategoriaNew(CData(<<>>, <<>>))
    /\ frs \in IF scenario = "frase"
                THEN {FraseNew(data) : data \in FraseInputs}
                ELSE {FraseNew(FData(<<>>, <<>>, NullTs, "", 0, 0))}
    /\ task = [i \in Instances |-> IdleTask]
    /\ queue = <<>>
    /\ probe = NoProbe
    /\ console = NoConsole
    /\ onDelete \in {"RESTRICT", "CASCADE"}
    /\ calls = 0

Next ==
    \/ \E data \in UsuarioInputs : NewUsuario(data)
    \/ \E id \in 1..MaxCalls : LoadUsuario(id)
    \/ \E password \in Passwords, salt \in 1..MaxSalt : UsuarioCreate(password, salt)
    \/ ExecInsertUsuario
    \/ ExecLastIdUsuario
    \/ \E updateData \in UsuarioUpdates : UsuarioUpdate(updateData)
    \/ ExecUpdateUsuario
    \/ \E password \in Passwords, salt \in 1..MaxSalt :
            UsuarioUpdatePassword(password, salt)
    \/ ExecUpdatePassword
    \/ UsuarioDelete
    \/ ExecDeleteUsuario
    \/ \E data \in CategoriaInputs : NewCategoria(data)
    \/ \E id \in 1..(MaxCalls + 1) : LoadCategoria(id)
    \/ CategoriaCreate
    \/ ExecInsertCategoria
    \/ ExecLastIdCategoria
    \/ \E updateData \in CategoriaUpdates : CategoriaUpdate(updateData)
    \/ ExecUpdateCategoria
    \/ \E forceDelete \in BOOLEAN : CategoriaDelete(forceDelete)
    \/ ExecCountFrases
    \/ ExecDeleteCategoria
    \/ \E data \in FraseInputs : NewFrase(data)
    \/ \E id \in 1..MaxCalls : LoadFrase(id)
    \/ FraseCreate
    \/ ExecInsertFrase
    \/ ExecLastIdFrase
    \/ \E updateData \in FraseUpdates : FraseUpdate(updateData)
    \/ FrasePublish
    \/ \E scheduledDate \in ScheduleDates : FraseSchedule(scheduledDate)
    \/ FraseDraft
    \/ ExecUpdateFrase
    \/ FraseDelete
    \/ ExecDeleteFrase
    \/ Tick

Spec == Init /\ [][Next]_vars

(***************************************************************************)
(* The Database handle by itself: connect(), query(), beginTransaction()   *)
(* and disconnect() called by two holders of the singleton, each call      *)
(* taken one await at a time.  The connections made are numbered; a task's *)
(* link is the connection its pending await concerns.                      *)
(***************************************************************************)
DbCallers == {"usr", "cat"}

\* isConnected(): this.connection !== null
isConnected == connection.current # 0

\* the calls of the other holders that are in flight
Others(i) == Cardinality({j \in DbCallers \ {i} : task[j].pc = "run"})

\* the call awaits the promise named label, which concerns connection link
Called(i, op, label, link) ==
    [Awaiting(op, 0, Stmt(label, <<>>)) EXCEPT !.link = link, !.refs = Others(i)]

\* the call returns without awaiting anything
Returned(i, op) == [Thrown(op, 0, Ok(0)) EXCEPT !.refs = Others(i)]

\* the call finds no connection and awaits mysql.createConnection(this.config)
Creating(i, op) ==
    /\ task' = [task EXCEPT ![i] =
                    Called(i, op, "createConnection", connection.made + 1)]
    /\ connection' = [connection EXCEPT !.made = connection.made + 1]

DbIdle == <<scenario, console, now, lastInsertId, nextId, usuario, categoria, frase,
            usr, cat, frs, queue, probe, onDelete>>

\* connect(): if (!this.connection) this.connection = await createConnection
DbConnect(i) ==
    /\ scenario = "database"
    /\ Begin(i)
    /\ IF ~isConnected
       THEN Creating(i, "connect")
       ELSE /\ task' = [task EXCEPT ![i] = Returned(i, "connect")]
            /\ UNCHANGED connection
    /\ UNCHANGED DbIdle

\* query(): if (!this.connection) await this.connect(); then execute
DbQuery(i) ==
    /\ scenario = "database"
    /\ Begin(i)
    /\ IF ~isConnected
       THEN Creating(i, "query")
       ELSE /\ task' = [task EXCEPT ![i] =
                            Called(i, "query", "execute", connection.current)]
            /\ UNCHANGED connection
    /\ UNCHANGED DbIdle

\* beginTransaction(): if (!this.connection) await this.connect(); then begin
DbBeginTransaction(i) ==
    /\ scenario = "database"
    /\ Begin(i)
    /\ IF ~isConnected
       THEN Creating(i, "beginTransaction")
       ELSE /\ task' = [task EXCEPT ![i] =
                            Called(i, "beginTransaction", "execute",
                                   connection.current)]
            /\ UNCHANGED connection
    /\ UNCHANGED DbIdle

\* createConnection resolves: this.connection = the new connection; connect()
\* returns, and query() or beginTransaction() goes on with this.connection
DbCreated(i) ==
    /\ task[i].pc = "run"
    /\ task[i].stmt.sql = "createConnection"
    /\ connection' = [connection EXCEPT !.current = task[i].link]
    /\ task' = IF task[i].op = "connect"
               THEN Finish(i, Ok(0))
               ELSE [task EXCEPT ![i].stmt = Stmt("execute", <<>>)]
    /\ UNCHANGED <<DbIdle, calls>>

\* the statement awaited on the linked connection ends: its rows, or the
\* error of a connection that was closed meanwhile
DbExecuted(i) ==
    /\ task[i].pc = "run"
    /\ task[i].stmt.sql = "execute"
    /\ task' = Finish(i, IF task[i].link \in connection.ended
                         THEN Err("store", <<"connection closed">>)
                         ELSE Ok(0))
    /\ UNCHANGED <<DbIdle, connection, calls>>

\* disconnect(): if (this.connection) await this.connection.end()
DbDisconnect(i) ==
    /\ scenario = "database"
    /\ Begin(i)
    /\ task' = [task EXCEPT ![i] =
                    IF isConnected
                    THEN Called(i, "disconnect", "end", connection.current)
                    ELSE Returned(i, "disconnect")]
    /\ UNCHANGED <<DbIdle, connection>>

\* an end() that resolves without this.connection being cleared
DbEndedKeep(i) ==
    /\ task[i].pc = "run"
    /\ task[i].stmt.sql = "end"
    /\ connection' = [connection EXCEPT !.ended = @ \cup {task[i].link}]
    /\ task' = Finish(i, Ok(0))
    /\ UNCHANGED <<DbIdle, calls>>

\* end() resolves: the linked connection is closed; this.connection = null
DbEnded(i) ==
    /\ task[i].pc = "run"
    /\ task[i].stmt.sql = "end"
    /\ connection' = [connection EXCEPT !.ended = @ \cup {task[i].link},
                                        !.current = 0]
    /\ task' = Finish(i, Ok(0))
    /\ UNCHANGED <<DbIdle, calls>>

InitDatabase ==
    /\ scenario = "database"
    /\ now = 0
    /\ connection = NoConnection
    /\ lastInsertId = 0
    /\ usuario = {}
    /\ categoria = {}
    /\ frase = {}
    /\ nextId = [t \in Tables |-> 1]
    /\ usr = UsuarioNew(UData(<<>>, <<>>, NoCred, ""))
    /\ cat = CategoriaNew(CData(<<>>, <<>>))
    /\ frs = FraseNew(FData(<<>>, <<>>, NullTs, "", 0, 0))
    /\ task = [i \in Instances |-> IdleTask]
    /\ queue = <<>>
    /\ probe = NoProbe
    /\ console = NoConsole
    /\ onDelete = "RESTRICT"
    /\ calls = 0

NextDatabase ==
    \/ \E i \in DbCallers : DbConnect(i)
    \/ \E i \in DbCallers : DbQuery(i)
    \/ \E i \in DbCallers : DbBeginTransaction(i)
    \/ \E i \in DbCallers : DbCreated(i)
    \/ \E i \in DbCallers : DbExecuted(i)
    \/ \E i \in DbCallers : DbDisconnect(i)
    \/ \E i \in DbCallers : DbEnded(i)

SpecDatabase == InitDatabase /\ [][NextDatabase]_vars

(***************************************************************************)
(* Runs of the static finders over a store that holds users, categories    *)
(* and quotes, while users and categories are deleted.  The caller holds a *)
(* user and a category it loaded with findById.                            *)
(***************************************************************************)
InitConsulta ==
    /\ scenario = "consulta"
    /\ now = 1
    /\ connection = NoConnection
    /\ lastInsertId = 0
    /\ usuario = {SeedUsuario, SeedEva}
    /\ categoria = {SeedCategoria, SeedJoy}
    /\ frase = SeedFrases
    /\ nextId = [t \in Tables |-> IF t = "frase" THEN 5 ELSE 3]
    /\ usr \in {UsuarioNew(r) : r \in usuario}
    /\ cat \in {CategoriaNew(r) : r \in categoria}
    /\ frs = FraseNew(FData(<<>>, <<>>, NullTs, "", 0, 0))
    /\ task = [i \in Instances |-> IdleTask]
    /\ queue = <<>>
    /\ probe = NoProbe
    /\ console = NoConsole
    /\ onDelete \in {"RESTRICT", "CASCADE"}
    /\ calls = 0

NextConsulta ==
    \/ UsuarioDelete
    \/ ExecDeleteUsuario
    \/ \E forceDelete \in BOOLEAN : CategoriaDelete(forceDelete)
    \/ ExecCountFrases
    \/ ExecDeleteCategoria
    \/ \E filters \in Asked, page \in Pages :
            FraseFindAll(filters, page[1], page[2])
    \/ \E page \in Pages : FraseFindPublished(page[1], page[2])
    \/ ExecFindAll
    \/ \E filters \in Asked : FraseCount(filters)
    \/ ExecCount
    \/ FraseFindScheduled
    \/ ExecFindScheduled
    \/ \E email \in {eAna, eBad}, password \in Passwords :
            UsuarioAuthenticate(email, password)
    \/ ExecAuthenticate
    \/ Tick

SpecConsulta == InitConsulta /\ [][NextConsulta]_vars

(***************************************************************************)
(* Direct calls of validate(), over field values that reach every limit    *)
(* of the three validators.                                                *)
(***************************************************************************)
tPadded == <<" ", " ", " ", " ", "p", "a", "d", "d", "e", "d">>

UsuarioDomain ==
    { UData(n, e, c, r) :
        n \in {<<>>, sA, sPadded, sAna},
        e \in {<<>>, eBad, eAna, <<"a", " ", "@", "x", ".", "c">>},
        c \in {NoCred, PlainCred(pShort), PlainCred(pSecret),
               hashPassword(pShort, 1)},
        r \in {"admin", "user", "root"} }

CategoriaDomain ==
    { CData(n, d) :
        n \in {<<>>, cH, <<" ", "H">>, cJoy, Rep("n", MaxCategoriaNombreLen),
               Rep("n", MaxCategoriaNombreLen + 1)},
        d \in {<<>>, cHope, Rep("d", MaxDescripcionLen),
               Rep("d", MaxDescripcionLen + 1)} }

FraseDomain ==
    { FData(t, a, ts, st, u, c) :
        t \in {<<>>, tShort, tPadded, tHope, Rep("t", MaxTextoLen),
               Rep("t", MaxTextoLen + 1)},
        a \in {<<>>, Rep("a", MaxAutorLen), Rep("a", MaxAutorLen + 1)},
        ts \in {NullTs, InvalidTs} \cup {DateTs(t) : t \in 0..(MaxTime + 1)},
        st \in {"draft", "scheduled", "published", "archived"},
        u \in {-1, 0, 1},
        c \in {0, 1} }

InitValidate ==
    /\ scenario \in Scenarios
    /\ now \in 0..MaxTime
    /\ connection = NoConnection
    /\ lastInsertId = 0
    /\ nextId = [t \in Tables |-> 1]
    /\ usuario = {}
    /\ categoria = {}
    /\ frase = {}
    /\ usr \in IF scenario = "usuario"
                THEN {UsuarioNew(data) : data \in UsuarioDomain}
                ELSE {UsuarioNew(UData(<<>>, <<>>, NoCred, ""))}
    /\ cat \in IF scenario = "categoria"
                THEN {CategoriaNew(data) : data \in CategoriaDomain}
                ELSE {CategoriaNew(CData(<<>>, <<>>))}
    /\ frs \in IF scenario = "frase"
                THEN {FraseNew(data) : data \in FraseDomain}
                ELSE {FraseNew(FData(<<>>, <<>>, NullTs, "", 0, 0))}
    /\ task = [i \in Instances |-> IdleTask]
    /\ queue = <<>>
    /\ probe = NoProbe
    /\ console = NoConsole
    /\ onDelete = "RESTRICT"
    /\ calls = 0

Probed(entity, result) ==
    /\ probe = NoProbe
    /\ probe' = [entity |-> entity, result |-> result]
    /\ UNCHANGED <<scenario, console, now, connection, lastInsertId, nextId, usuario,
                   categoria, frase, usr, cat, frs, task, queue, onDelete, calls>>

ValidateUsuario ==
    /\ scenario = "usuario"
    /\ Probed("usuario", UsuarioValidate(usr))

ValidateCategoria ==
    /\ scenario = "categoria"
    /\ Probed("categoria", CategoriaValidate(cat))

ValidateFrase ==
    /\ scenario = "frase"
    /\ Probed("frase", FraseValidate(frs, now))

\* JSON.stringify(usuario) calls usuario.toJSON()
SerializeUsuario ==
    /\ scenario = "usuario"
    /\ Probed("usuario.toJSON", UsuarioToJSON(usr))

NextValidate ==
    \/ SerializeUsuario
    \/ ValidateUsuario
    \/ ValidateCategoria
    \/ ValidateFrase

SpecValidate == InitValidate /\ [][NextValidate]_vars

(***************************************************************************)
(* The console.  GratiDayConsole shows a menu, awaits the answer, runs the  *)
(* handler of the chosen entry and returns to the main menu.  It awaits     *)
(* every call on an entity before it prompts again, so a step runs from one *)
(* prompt to the next.  The handlers that neither remove a row nor change a *)
(* quote's status are followed up to their dispatch only.                   *)
(***************************************************************************)
\* the ids typed at the prompts: rows of the store and one that is absent
PromptIds == {1, 2, 9}

Choice(name, value) == [name |-> name, value |-> value]

\* switch (action): the first case whose label equals the value
Switch(cases, action) ==
    LET hits == {i \in DOMAIN cases : cases[i][1] = action}
    IN  IF hits = {} THEN ""
        ELSE cases[CHOOSE i \in hits : \A j \in hits : i <= j][2]

MainChoices ==
    { Choice("Gestionar Usuarios", "usuarios"),
      Choice("Gestionar Categorias", "categorias"),
      Choice("Gestionar Frases", "frases"),
      Choice("Ver Estadisticas", "estadisticas"),
      Choice("Busquedas Avanzadas", "busquedas"),
      Choice("Salir de la aplicacion", "salir") }

MainCases ==
    << <<"usuarios", "showUserMenu">>, <<"categorias", "showCategoryMenu">>,
       <<"frases", "showQuoteMenu">>, <<"estadisticas", "showStatistics">>,
       <<"busquedas", "showSearchMenu">>, <<"salir", "exit">> >>

UserChoices ==
    { Choice("Crear Usuario", "create"), Choice("Listar Usuarios", "list"),
      Choice("Buscar Usuario por ID", "findById"),
      Choice("Buscar Usuario por Email", "findByEmail"),
      Choice("Actualizar Usuario", "update"),
      Choice("Cambiar Contrasena", "changePassword"),
      Choice("Eliminar Usuario", "delete"),
      Choice("Autenticar Usuario", "authenticate"),
      Choice("Volver al Menu Principal", "back") }

UserCases ==
    << <<"create", "createUser">>, <<"list", "listUsers">>,
       <<"findById", "findUserById">>, <<"findByEmail", "findUserByEmail">>,
       <<"update", "updateUser">>, <<"changePassword", "changeUserPassword">>,
       <<"delete", "deleteUser">>, <<"authenticate", "authenticateUser">>,
       <<"back", "showMainMenu">> >>

CategoryChoices ==
    { Choice("Crear Categoria", "create"), Choice("Listar Categorias", "list"),
      Choice("Buscar Categoria por ID", "findById"),
      Choice("Buscar Categoria por Nombre", "findByName"),
      Choice("Actualizar Categoria", "update"),
      Choice("Eliminar Categoria", "delete"),
      Choice("Ver Estadisticas de Categoria", "stats"),
      Choice("Volver al Menu Principal", "back") }

CategoryCases ==
    << <<"create", "createCategory">>, <<"list", "listCategories">>,
       <<"findById", "findCategoryById">>, <<"findByName", "findCategoryByName">>,
       <<"update", "updateCategory">>, <<"delete", "deleteCategory">>,
       <<"stats", "showCategoryStats">>, <<"back", "showMainMenu">> >>

QuoteChoices ==
    { Choice("Crear Frase", "create"), Choice("Listar Frases", "list"),
      Choice("Buscar Frase por ID", "findById"),
      Choice("Frases Publicadas", "published"),
      Choice("Frases en Borrador", "draft"),
      Choice("Frases Programadas", "scheduled"),
      Choice("Frases Aleatorias", "random"),
      Choice("Actualizar Frase", "update"),
      Choice("Publicar Frase", "publish"),
      Choice("Programar Frase", "schedule"),
      Choice("Cambiar a Borrador", "draft"),
      Choice("Eliminar Frase", "delete"),
      Choice("Volver al Menu Principal", "back") }

QuoteCases ==
    << <<"create", "createQuote">>, <<"list", "listQuotes">>,
       <<"findById", "findQuoteById">>, <<"published", "listPublishedQuotes">>,
       <<"draft", "listDraftQuotes">>, <<"scheduled", "listScheduledQuotes">>,
       <<"random", "showRandomQuotes">>, <<"update", "updateQuote">>,
       <<"publish", "publishQuote">>, <<"schedule", "scheduleQuote">>,
       <<"draft", "draftQuote">>, <<"delete", "deleteQuote">>,
       <<"back", "showMainMenu">> >>

\* the handlers followed beyond their dispatch
Followed ==
    {"showUserMenu", "showCategoryMenu", "showQuoteMenu", "exit", "deleteUser",
     "deleteCategory", "deleteQuote", "publishQuote", "scheduleQuote",
     "draftQuote"}

\* the menu's prompt was answered with choice and the switch ran
Dispatched(choice, cases) ==
    LET h == Switch(cases, choice.value)
    IN  [console EXCEPT !.choice = choice.name, !.handler = h,
            !.pc = IF h = "showMainMenu" THEN "showMainMenu"
                   ELSE IF h \in Followed THEN h ELSE "pauseAndReturn",
            !.count = 0, !.confirm = FALSE, !.forceDelete = FALSE,
            !.call = "", !.arg = FALSE]

ConsoleKeeps ==
    UNCHANGED <<scenario, now, connection, lastInsertId, nextId, task, queue,
                probe, onDelete, calls>>

showMainMenu(choice) ==
    /\ console.pc = "showMainMenu"
    /\ console' = Dispatched(choice, MainCases)
    /\ ConsoleKeeps
    /\ UNCHANGED <<usuario, categoria, frase, usr, cat, frs>>

showUserMenu(choice) ==
    /\ console.pc = "showUserMenu"
    /\ console' = Dispatched(choice, UserCases)
    /\ ConsoleKeeps
    /\ UNCHANGED <<usuario, categoria, frase, usr, cat, frs>>

showCategoryMenu(choice) ==
    /\ console.pc = "showCategoryMenu"
    /\ console' = Dispatched(choice, CategoryCases)
    /\ ConsoleKeeps
    /\ UNCHANGED <<usuario, categoria, frase, usr, cat, frs>>

showQuoteMenu(choice) ==
    /\ console.pc = "showQuoteMenu"
    /\ console' = Dispatched(choice, QuoteCases)
    /\ ConsoleKeeps
    /\ UNCHANGED <<usuario, categoria, frase, usr, cat, frs>>

\* deleteUser() up to the confirm prompt: Usuario.findById(id)
deleteUser(id) ==
    /\ console.pc = "deleteUser"
    /\ IF RowsWhere(usuario, "id_user", id) = {}
       THEN /\ console' = [console EXCEPT !.pc = "pauseAndReturn"]
            /\ UNCHANGED usr
       ELSE /\ usr' = UsuarioNew(CHOOSE r \in usuario : r.id_user = id)
            /\ console' = [console EXCEPT !.pc = "deleteUser.confirm"]
    /\ ConsoleKeeps
    /\ UNCHANGED <<usuario, categoria, frase, cat, frs>>

\* a deleteUser() that deletes whatever the answer is
deleteUserUnasked(confirm) ==
    /\ console.pc = "deleteUser.confirm"
    /\ console' = [console EXCEPT !.pc = "pauseAndReturn", !.confirm = confirm,
                                  !.call = "Usuario.delete"]
    /\ LET hit == RowsWhere(usuario, "id_user", usr.id_user)
           refs == FrasesDeUsuario(usr.id_user)
       IN  IF refs # {} /\ onDelete = "RESTRICT"
           THEN UNCHANGED <<usuario, frase>>
           ELSE usuario' = usuario \ hit /\ frase' = frase \ refs
    /\ ConsoleKeeps
    /\ UNCHANGED <<categoria, usr, cat, frs>>

\* deleteUser() from the answer to the confirm prompt: usuario.delete()
deleteUserConfirmed(confirm) ==
    /\ console.pc = "deleteUser.confirm"
    /\ IF confirm
       THEN /\ console' = [console EXCEPT !.pc = "pauseAndReturn",
                              !.confirm = TRUE, !.call = "Usuario.delete"]
            /\ LET hit == RowsWhere(usuario, "id_user", usr.id_user)
                   refs == FrasesDeUsuario(usr.id_user)
               IN  IF refs # {} /\ onDelete = "RESTRICT"
                   THEN UNCHANGED <<usuario, frase>>
                   ELSE usuario' = usuario \ hit /\ frase' = frase \ refs
       ELSE /\ console' = [console EXCEPT !.pc = "pauseAndReturn"]
            /\ UNCHANGED <<usuario, frase>>
    /\ ConsoleKeeps
    /\ UNCHANGED <<categoria, usr, cat, frs>>

\* deleteCategory() up to the confirm prompt: findById, getFrasesCount
deleteCategory(id) ==
    /\ console.pc = "deleteCategory"
    /\ IF RowsWhere(categoria, "id_category", id) = {}
       THEN /\ console' = [console EXCEPT !.pc = "pauseAndReturn"]
            /\ UNCHANGED cat
       ELSE /\ cat' = CategoriaNew(CHOOSE r \in categoria : r.id_category = id)
            /\ console' = [console EXCEPT !.pc = "deleteCategory.confirm",
                              !.count = Cardinality(FrasesDeCategoria(id))]
    /\ ConsoleKeeps
    /\ UNCHANGED <<usuario, categoria, frase, usr, frs>>

\* categoria.delete(forceDelete) as the console awaits it
CategoriaDeleted(forceDelete) ==
    LET hit == RowsWhere(categoria, "id_category", cat.id_category)
        refs == FrasesDeCategoria(cat.id_category)
    IN  IF refs # {} /\ (~forceDelete \/ onDelete = "RESTRICT")
        THEN UNCHANGED <<categoria, frase>>
        ELSE categoria' = categoria \ hit /\ frase' = frase \ refs

\* deleteCategory() from the answer to the confirm prompt
deleteCategoryConfirmed(confirm) ==
    /\ console.pc = "deleteCategory.confirm"
    /\ IF ~confirm
       THEN /\ console' = [console EXCEPT !.pc = "pauseAndReturn"]
            /\ UNCHANGED <<categoria, frase>>
       ELSE IF console.count > 0
            THEN /\ console' = [console EXCEPT !.confirm = TRUE,
                                   !.pc = "deleteCategory.forceDelete"]
                 /\ UNCHANGED <<categoria, frase>>
            ELSE /\ console' = [console EXCEPT !.pc = "pauseAndReturn",
                                   !.confirm = TRUE,
                                   !.call = "Categoria.delete", !.arg = FALSE]
                 /\ CategoriaDeleted(FALSE)
    /\ ConsoleKeeps
    /\ UNCHANGED <<usuario, usr, cat, frs>>

\* deleteCategory() from the answer to the force-delete prompt
deleteCategoryForced(forceDelete) ==
    /\ console.pc = "deleteCategory.forceDelete"
    /\ console' = [console EXCEPT !.pc = "pauseAndReturn",
                      !.forceDelete = forceDelete,
                      !.call = "Categoria.delete", !.arg = forceDelete]
    /\ CategoriaDeleted(forceDelete)
    /\ ConsoleKeeps
    /\ UNCHANGED <<usuario, usr, cat, frs>>

\* deleteQuote() up to the confirm prompt: Frase.findById(id)
deleteQuote(id) ==
    /\ console.pc = "deleteQuote"
    /\ IF RowsWhere(frase, "id_quote", id) = {}
       THEN /\ console' = [console EXCEPT !.pc = "pauseAndReturn"]
            /\ UNCHANGED frs
       ELSE /\ frs' = FraseNew(CHOOSE r \in frase : r.id_quote = id)
            /\ console' = [console EXCEPT !.pc = "deleteQuote.confirm"]
    /\ ConsoleKeeps
    /\ UNCHANGED <<usuario, categoria, frase, usr, cat>>

\* deleteQuote() from the answer to the confirm prompt: frase.delete()
deleteQuoteConfirmed(confirm) ==
    /\ console.pc = "deleteQuote.confirm"
    /\ IF confirm
       THEN /\ console' = [console EXCEPT !.pc = "pauseAndReturn",
                              !.confirm = TRUE, !.call = "Frase.delete"]
            /\ frase' = frase \ RowsWhere(frase, "id_quote", frs.id_quote)
       ELSE /\ console' = [console EXCEPT !.pc = "pauseAndReturn"]
            /\ UNCHANGED frase
    /\ ConsoleKeeps
    /\ UNCHANGED <<usuario, categoria, usr, cat, frs>>

\* frase.update(fields) on the instance the handler has just loaded
FraseUpdated(fields) ==
    LET merged == Merge(frs', fields, "id_quote")
    IN  IF FraseValidate(merged, now).isValid
        THEN frase' = {IF r.id_quote = merged.id_quote
                        THEN [r EXCEPT !.texto = merged.texto,
                                       !.autor = merged.autor,
                                       !.scheduled_at = merged.scheduled_at,
                                       !.status = merged.status,
                                       !.categoria_id = merged.categoria_id]
                        ELSE r : r \in frase}
        ELSE UNCHANGED frase

\* publishQuote(), draftQuote(), and scheduleQuote() up to the date prompt
changeQuote(id) ==
    /\ console.pc \in {"publishQuote", "scheduleQuote", "draftQuote"}
    /\ IF RowsWhere(frase, "id_quote", id) = {}
       THEN /\ console' = [console EXCEPT !.pc = "pauseAndReturn"]
            /\ UNCHANGED <<frs, frase>>
       ELSE /\ frs' = FraseNew(CHOOSE r \in frase : r.id_quote = id)
            /\ IF console.pc = "scheduleQuote"
               THEN /\ console' = [console EXCEPT !.pc = "scheduleQuote.fecha"]
                    /\ UNCHANGED frase
               ELSE IF console.pc = "publishQuote"
               THEN /\ console' = [console EXCEPT !.pc = "pauseAndReturn",
                                      !.call = "Frase.publish"]
                    /\ FraseUpdated([status |-> "published",
                                     scheduled_at |-> NullTs])
               ELSE /\ console' = [console EXCEPT !.pc = "pauseAndReturn",
                                      !.call = "Frase.draft"]
                    /\ FraseUpdated([status |-> "draft", scheduled_at |-> NullTs])
    /\ ConsoleKeeps
    /\ UNCHANGED <<usuario, categoria, usr, cat>>

\* scheduleQuote() from the date prompt, which accepts future dates only
scheduleQuote(fecha) ==
    /\ console.pc = "scheduleQuote.fecha"
    /\ fecha.t > now
    /\ console' = [console EXCEPT !.pc = "pauseAndReturn",
                      !.call = "Frase.schedule"]
    /\ frs' = frs
    /\ FraseUpdated([status |-> "scheduled", scheduled_at |-> fecha])
    /\ ConsoleKeeps
    /\ UNCHANGED <<usuario, categoria, usr, cat>>

\* pauseAndReturn(): Enter, then showMainMenu()
pauseAndReturn ==
    /\ console.pc = "pauseAndReturn"
    /\ console' = [console EXCEPT !.pc = "showMainMenu"]
    /\ ConsoleKeeps
    /\ UNCHANGED <<usuario, categoria, frase, usr, cat, frs>>

\* exit(): confirm, then disconnect and process.exit(0), or the main menu
exit(confirm) ==
    /\ console.pc = "exit"
    /\ console' = [console EXCEPT !.confirm = confirm,
                      !.pc = IF confirm THEN "exited" ELSE "showMainMenu"]
    /\ ConsoleKeeps
    /\ UNCHANGED <<usuario, categoria, frase, usr, cat, frs>>

\* the state after start(): connected, at the main menu
InitConsole ==
    /\ scenario = "consola"
    /\ now = 1
    /\ connection = Opened(NoConnection)
    /\ lastInsertId = 0
    /\ usuario = {SeedUsuario, SeedEva}
    /\ categoria = {SeedCategoria, SeedJoy}
    /\ frase = SeedFrases
    /\ nextId = [t \in Tables |-> IF t = "frase" THEN 5 ELSE 3]
    /\ usr = UsuarioNew(UData(<<>>, <<>>, NoCred, ""))
    /\ cat = CategoriaNew(CData(<<>>, <<>>))
    /\ frs = FraseNew(FData(<<>>, <<>>, NullTs, "", 0, 0))
    /\ task = [i \in Instances |-> IdleTask]
    /\ queue = <<>>
    /\ probe = NoProbe
    /\ console = [NoConsole EXCEPT !.pc = "showMainMenu"]
    /\ onDelete \in {"RESTRICT", "CASCADE"}
    /\ calls = 0

NextConsole ==
    \/ \E choice \in MainChoices : showMainMenu(choice)
    \/ \E choice \in UserChoices : showUserMenu(choice)
    \/ \E choice \in CategoryChoices : showCategoryMenu(choice)
    \/ \E choice \in QuoteChoices : showQuoteMenu(choice)
    \/ \E id \in PromptIds : deleteUser(id)
    \/ \E confirm \in BOOLEAN : deleteUserConfirmed(confirm)
    \/ \E id \in PromptIds : deleteCategory(id)
    \/ \E confirm \in BOOLEAN : deleteCategoryConfirmed(confirm)
    \/ \E forceDelete \in BOOLEAN : deleteCategoryForced(forceDelete)
    \/ \E id \in PromptIds : deleteQuote(id)
    \/ \E confirm \in BOOLEAN : deleteQuoteConfirmed(confirm)
    \/ \E id \in PromptIds : changeQuote(id)
    \/ \E fecha \in ScheduleDates : scheduleQuote(fecha)
    \/ pauseAndReturn
    \/ \E confirm \in BOOLEAN : exit(confirm)

SpecConsole == InitConsole /\ [][NextConsole]_vars

(***************************************************************************)
(* Properties.                                                             *)
(***************************************************************************)
Store == <<usuario, categoria, frase>>

Inst(i) == IF i = "usr" THEN usr ELSE IF i = "cat" THEN cat ELSE frs

IdOf(i) ==
    IF i = "usr" THEN usr.id_user
    ELSE IF i = "cat" THEN cat.id_category
    ELSE frs.id_quote

\* this step is the synchronous prefix of a call on instance i
Started(i) == calls' = calls + 1 /\ task'[i].call = calls'

\* this step executes the statement instance i awaits, and its continuation
HeadRuns(i, sql) == IsHead(i, sql) /\ task'[i] # task[i]

\* what validate() returned to the call this step starts on instance i
Checked(i) ==
    IF i = "usr"
    THEN UsuarioValidate(IF task'[i].op = "create" THEN usr ELSE usr')
    ELSE IF i = "cat" THEN CategoriaValidate(cat')
    ELSE FraseValidate(frs', now)

Mentions(messages, msg) == \E k \in 1..Len(messages) : messages[k] = msg

\* C1: create(plaintext) on a User that has no identifier and no stored hash,
\* with a valid name, a valid email that no row holds, a role of the
\* enumeration and a plaintext of at least 6 characters, does not fail: a
\* finished create() that threw was not such a call.
C1_FreshCreateSucceeds ==
    (/\ task["usr"].op = "create"
     /\ task["usr"].pc = "done"
     /\ task["usr"].res.kind = "error")
    => ~(/\ usr.id_user = 0
         /\ usr.password_hash = NoCred
         /\ Len(Trim(usr.nombre)) >= MinNombreLen
         /\ isValidEmail(usr.correo_electronico)
         /\ ~DupCorreo(usr.correo_electronico, 0)
         /\ usr.rol \in {"admin", "user"}
         /\ Len(task["usr"].arg) >= MinPasswordLen)

\* C2: create(plaintext) with a plaintext shorter than 6 characters ends in a
\* validation error, submits no statement and inserts no row, whatever the
\* instance's fields are.
C2_ShortPasswordRejected ==
    /\ (/\ task["usr"].op = "create"
        /\ Len(task["usr"].arg) < MinPasswordLen)
       => (/\ task["usr"].pc = "done"
           /\ task["usr"].res.type = "validation"
           /\ task["usr"].sent = 0)
    /\ \A r \in usuario : Len(r.password_hash.pw) >= MinPasswordLen

\* C3: when validate() reports isValid = false to a create() or update() of
\* any entity, the call throws a validation error whose message lists every
\* violated rule, submits no statement and leaves every row unchanged.
C3_Step(i) ==
    (/\ Started(i)
     /\ task'[i].op \in {"create", "update"}
     /\ ~(task'[i].op = "update" /\ IdOf(i) = 0)
     /\ ~Checked(i).isValid)
    => (/\ task'[i].pc = "done"
        /\ task'[i].res.kind = "error"
        /\ task'[i].res.type = "validation"
        /\ \A k \in 1..Len(Checked(i).errors) :
                Mentions(task'[i].res.messages, Checked(i).errors[k])
        /\ task'[i].sent = 0
        /\ queue' = queue
        /\ Store' = Store)

C3_InvalidNeverReachesStore == [][\A i \in Instances : C3_Step(i)]_vars

C3_Witness ==
    /\ task["frs"].op = "update"
    /\ task["frs"].res.type = "validation"
    /\ Len(task["frs"].res.messages) >= 2
    /\ task["frs"].sent = 0

\* the rules of the Quote validation table, on field values and a clock
AutorEnRango(f) == Len(f.autor) <= MaxAutorLen
CreadorPositivo(f) == f.creado_por > 0
CategoriaPositiva(f) == f.categoria_id > 0
StatusEnumerado(f) == f.status \in {"draft", "scheduled", "published"}
ProgramadaConFecha(f) == f.status = "scheduled" => f.scheduled_at.kind # "null"
FechaFutura(f, clock) ==
    f.scheduled_at.kind # "null"
        => (f.scheduled_at.kind = "date" /\ f.scheduled_at.t > clock)

\* the rules f violates, each with the message validate() has for it
Violadas(f, clock) ==
    {m \in {ErrTextoCorto, ErrTextoLargo, ErrAutor, ErrCreador, ErrCategoria,
            ErrStatus, ErrSinFecha, ErrFechaPasada} :
        \/ m = ErrTextoCorto /\ Len(f.texto) < MinTextoLen
        \/ m = ErrTextoLargo /\ Len(f.texto) > MaxTextoLen
        \/ m = ErrAutor /\ ~AutorEnRango(f)
        \/ m = ErrCreador /\ ~CreadorPositivo(f)
        \/ m = ErrCategoria /\ ~CategoriaPositiva(f)
        \/ m = ErrStatus /\ ~StatusEnumerado(f)
        \/ m = ErrSinFecha /\ ~ProgramadaConFecha(f)
        \/ m = ErrFechaPasada /\ ~FechaFutura(f, clock)}

\* C4: Quote.validate() accepts exactly the instances whose text has 10 to
\* 1000 characters, whose author has at most 120, whose creator and category
\* ids are positive, whose status is of the enumeration, that have a
\* timestamp when scheduled, and whose timestamp, when present, is an instant
\* later than the clock; an accepted instance gets an empty error list and an
\* instance that breaks exactly one rule gets exactly that rule's message.
C4_ValidateMatchesRules ==
    probe.entity = "frase"
    => (/\ probe.result.isValid <=> (Violadas(frs, now) = {})
        /\ probe.result.isValid => probe.result.errors = <<>>
        /\ \A m \in Violadas(frs, now) :
                Violadas(frs, now) = {m} => probe.result.errors = <<m>>)

\* C5 as stated: the status of every row is of the enumeration, and a row is
\* written with status scheduled only with a timestamp that is later than the
\* clock at the moment of the write.
RowsWellFormed ==
    \A r \in frase :
        /\ r.status \in {"draft", "scheduled", "published"}
        /\ r.status = "scheduled" => r.scheduled_at.kind = "date"

C5_SubmittedFuture ==
    (/\ Started("frs")
     /\ task'["frs"].pc = "run"
     /\ task'["frs"].stmt.sql \in {"INSERT frase", "UPDATE frase"}
     /\ task'["frs"].stmt.params[4] = "scheduled")
    => (/\ task'["frs"].stmt.params[3].kind = "date"
        /\ task'["frs"].stmt.params[3].t > now)

C5_WrittenAsSubmitted ==
    \A r \in frase' \ frase :
        r.status = "scheduled"
            => (/\ IsHead("frs", task["frs"].stmt.sql)
                /\ task["frs"].stmt.params[4] = "scheduled"
                /\ r.scheduled_at = task["frs"].stmt.params[3])

C6_Step(i) ==
    task'[i].pc # "idle"
    => (/\ IdOf(i) # 0 => IdOf(i)' = IdOf(i)
        /\ (IdOf(i) = 0 /\ IdOf(i)' # 0)
                => (task'[i].op = "create" /\ task'[i].res.kind = "ok"))

C6_IdentifierImmutable == [][\A i \in Instances : C6_Step(i)]_vars

\* C7: update(), updatePassword() and delete() on an instance whose
\* identifier is null throw the missing-identifier error, change no field of
\* the instance, submit no statement and change no row.
C7_Step(i) ==
    (/\ Started(i)
     /\ task'[i].op \in {"update", "updatePassword", "delete",
                         "publish", "schedule", "draft"}
     /\ IdOf(i) = 0)
    => (/\ task'[i].pc = "done"
        /\ task'[i].res.kind = "error"
        /\ task'[i].res.type = "noid"
        /\ task'[i].sent = 0
        /\ Inst(i)' = Inst(i)
        /\ queue' = queue
        /\ Store' = Store)

C7_NoIdNoEffect == [][\A i \in Instances : C7_Step(i)]_vars

C7_Witness ==
    /\ task["usr"].op = "updatePassword"
    /\ task["usr"].res.type = "noid"
    /\ usr.id_user = 0

\* the count statement of a non-forced delete finds referencing quotes: the
\* call ends in a dependency error, no DELETE is submitted, no row changes
C8_Blocked ==
    (/\ HeadRuns("cat", "SELECT COUNT frase")
     /\ FrasesDeCategoria(cat.id_category) # {})
    => (/\ task'["cat"].pc = "done"
        /\ task'["cat"].res.kind = "error"
        /\ task'["cat"].res.type = "dependency"
        /\ task'["cat"].sent = 1
        /\ queue' = Tail(queue)
        /\ Store' = Store
        /\ HasCategoria(cat.id_category))

\* the DELETE of a non-forced delete finds the row and no referencing quote:
\* the row is removed and the call returns true
C8_Free ==
    (/\ HeadRuns("cat", "DELETE categoria")
     /\ task["cat"].arg = FALSE
     /\ FrasesDeCategoria(cat.id_category) = {}
     /\ HasCategoria(cat.id_category))
    => (/\ task'["cat"].res = Ok(1)
        /\ \A r \in categoria' : r.id_category # cat.id_category)

\* a forced delete submits the DELETE as its first statement
C8_Forced ==
    (/\ Started("cat")
     /\ task'["cat"].op = "delete"
     /\ task'["cat"].arg = TRUE
     /\ IdOf("cat") # 0)
    => (/\ task'["cat"].pc = "run"
        /\ task'["cat"].sent = 1
        /\ task'["cat"].stmt = Stmt("DELETE categoria", <<cat.id_category>>)
        /\ queue' = Append(queue, "cat"))

\* the error of the blocked delete names the number of referencing quotes
C8_NamesCount ==
    (/\ HeadRuns("cat", "SELECT COUNT frase")
     /\ FrasesDeCategoria(cat.id_category) # {})
    => \E k \in 1..Len(task'["cat"].res.numbers) :
            task'["cat"].res.numbers[k]
                = Cardinality(FrasesDeCategoria(cat.id_category))

\* C8 as stated: a non-forced delete of a category that quotes reference
\* fails with a dependency error naming their number, issues no DELETE and
\* keeps the row; with no referencing quote it removes the row and returns
\* true; a forced delete skips the count and attempts the DELETE.
C8_DeleteAsStated ==
    [][C8_Blocked /\ C8_NamesCount /\ C8_Free /\ C8_Forced]_vars

\* C8 amended: the same, with a dependency error that names no number.
C8_DeleteGuarded ==
    [][/\ C8_Blocked
       /\ C8_Free
       /\ C8_Forced
       /\ HeadRuns("cat", "SELECT COUNT frase")
            => task'["cat"].res.numbers = <<>>]_vars

C8_Witness ==
    /\ task["cat"].op = "delete"
    /\ task["cat"].arg = FALSE
    /\ task["cat"].res.type = "dependency"
    /\ task["cat"].count > 0
    /\ HasCategoria(cat.id_category)

\* C9: a non-forced delete that came to execute its DELETE found then, as its
\* count did, no quote referencing the category: no quote write falls
\* between the count and the DELETE.
C9_CountAndDeleteAtomic ==
    (/\ task["cat"].op = "delete"
     /\ task["cat"].arg = FALSE
     /\ task["cat"].pc = "done"
     /\ task["cat"].sent = 2)
    => task["cat"].refs = task["cat"].count

\* this step executes the UPDATE of a publish() that then returns
Published ==
    /\ HeadRuns("frs", "UPDATE frase")
    /\ task["frs"].op = "publish"
    /\ task'["frs"].res.kind = "ok"

PublishedOnly(r) == [r EXCEPT !.status = "published", !.scheduled_at = NullTs]

PublishedFromInstance(r) ==
    [r EXCEPT !.status = "published", !.scheduled_at = NullTs,
              !.texto = frs.texto, !.autor = frs.autor,
              !.categoria_id = frs.categoria_id]

\* C10 as stated: a publish() that succeeds leaves the instance and the row
\* published with a null timestamp and changes no other column of the row
\* and no other row.
C10_PublishChangesOnlyStatus ==
    [][Published
        => (/\ frs'.status = "published"
            /\ frs'.scheduled_at = NullTs
            /\ frase' = {IF r.id_quote = frs.id_quote
                            THEN PublishedOnly(r) ELSE r : r \in frase})]_vars

\* C10 amended: a publish() that succeeds leaves the instance and the row
\* published with a null timestamp, writes the instance's text, author and
\* category id to the row, and changes no other column and no other row.
C10_PublishWritesInstance ==
    [][Published
        => (/\ frs'.status = "published"
            /\ frs'.scheduled_at = NullTs
            /\ frase' = {IF r.id_quote = frs.id_quote
                            THEN PublishedFromInstance(r) ELSE r : r \in frase}
            /\ UNCHANGED <<usuario, categoria>>)]_vars

\* a publish() returned after writing a row that had a scheduled date
C10_Witness ==
    /\ task["frs"].op = "publish"
    /\ task["frs"].res.kind = "ok"
    /\ \E r \in frase :
            /\ r.id_quote = frs.id_quote
            /\ r.status = "published"
            /\ r.scheduled_at = NullTs
            /\ frs.scheduled_at = NullTs
            /\ r.fecha_creacion.t < now

\* C18: when create() succeeds, the identifier the instance carries is the
\* identifier of the row this very create() inserted, also when other create()
\* calls share the connection: the step that reads LAST_INSERT_ID() for
\* instance i sets its identifier to the row its INSERT wrote.
C18_Step ==
    \A i \in {"usr", "cat", "frs"} :
        HeadRuns(i, "SELECT LAST_INSERT_ID") => IdOf(i)' = task[i].row

C18_CreateReturnsOwnRow == [][C18_Step]_vars

ErrDuplicado == Err("duplicate", <<"El correo electronico ya esta registrado">>)

\* the email an INSERT or UPDATE of usuario at the head of the queue would
\* write is held by another row
Duplicating ==
    \/ /\ IsHead("usr", "INSERT usuario")
       /\ DupCorreo(task["usr"].stmt.params[2], 0)
    \/ /\ IsHead("usr", "UPDATE usuario")
       /\ RowsWhere(usuario, "id_user", task["usr"].stmt.params[4]) # {}
       /\ DupCorreo(task["usr"].stmt.params[2], task["usr"].stmt.params[4])

EmailsUnique ==
    \A r1, r2 \in usuario :
        r1.correo_electronico = r2.correo_electronico => r1 = r2

C19_Step ==
    (Duplicating /\ task'["usr"] # task["usr"])
        => /\ task'["usr"].pc = "done"
           /\ task'["usr"].res = ErrDuplicado
           /\ usuario' = usuario
           /\ RowsWhere(usuario', "correo_electronico",
                        task["usr"].stmt.params[2])
                = FindByEmail(task["usr"].stmt.params[2])
           /\ FindByEmail(task["usr"].stmt.params[2]) # {}

\* C19: no two user rows share an email; a create() or update() whose email
\* another row holds fails with the duplicate-email error of the domain (not
\* the store's raw error), leaves the user rows unchanged, and findByEmail of
\* that email still returns the row that held it.
C19_EmailUnique == []EmailsUnique /\ [][C19_Step]_vars

\* an update() to the email of the other of two users has failed as a duplicate
C19_Witness ==
    /\ Cardinality(usuario) = 2
    /\ task["usr"].op = "update"
    /\ task["usr"].pc = "done"
    /\ task["usr"].res = ErrDuplicado
    /\ FindByEmail(usr.correo_electronico) # {}
    /\ \A r \in FindByEmail(usr.correo_electronico) : r.id_user # usr.id_user

\* the row holding the email, if its stored credential was derived from the
\* plaintext
Verified(email, plaintext) ==
    {r \in usuario :
        /\ r.correo_electronico = email
        /\ \E salt \in 0..(MaxSalt + 1) :
               r.password_hash = hashPassword(plaintext, salt)}

C20_Step ==
    /\ HeadRuns("qry", "SELECT usuario WHERE correo")
        => LET email == task["qry"].stmt.params[1]
               plaintext == task["qry"].arg
           IN  /\ task'["qry"].pc = "done"
               /\ task'["qry"].res.kind = "ok"
               /\ IF Verified(email, plaintext) = {}
                  THEN task'["qry"].res.rows = <<>>
                  ELSE \E r \in Verified(email, plaintext) :
                           task'["qry"].res.rows = <<UsuarioNew(r)>>
    /\ (task'["qry"] # task["qry"] /\ task'["qry"].op = "authenticate")
        => /\ Store' = Store
           /\ task'["qry"].res.kind # "err"

\* C20: authenticate(email, plaintext) returns a User exactly when a row with
\* that email exists and the plaintext verifies against its stored hash (the
\* User of that row); otherwise it returns null without raising; it never
\* modifies the store.
C20_AuthenticateExactly == [][C20_Step]_vars

\* authenticate() has returned the User of the row whose password was given
C20_Witness ==
    /\ task["qry"].op = "authenticate"
    /\ task["qry"].pc = "done"
    /\ task["qry"].arg = pSecret
    /\ Len(task["qry"].res.rows) = 1
    /\ task["qry"].res.rows[1].correo_electronico = eAna

\* authenticate() has returned null for a row whose password was not given
C20_Refused ==
    /\ task["qry"].op = "authenticate"
    /\ task["qry"].pc = "done"
    /\ task["qry"].arg = pShort
    /\ task["qry"].res.rows = <<>>
    /\ FindByEmail(eAna) # {}

\* needle occurs in hay, letters compared without regard to case
Contains(needle, hay) ==
    \E k \in 0..(Len(hay) - Len(needle)) :
        \A j \in 1..Len(needle) : Lower(hay[k + j]) = Lower(needle[j])

\* quote q satisfies the conjunction of the filters given
Satisfies(q, filters) ==
    /\ filters.status # "" => q.status = filters.status
    /\ filters.categoria_id # 0 => q.categoria_id = filters.categoria_id
    /\ filters.creado_por # 0 => q.creado_por = filters.creado_por
    /\ filters.search # <<>>
        => Contains(filters.search, q.texto) \/ Contains(filters.search, q.autor)

C15_Step ==
    HeadRuns("qry", "SELECT frase")
        => LET filters == task["qry"].stmt.params[1]
               limit == task["qry"].stmt.params[2]
               offset == task["qry"].stmt.params[3]
           IN  /\ task'["qry"].res.kind = "ok"
               /\ \A k \in 1..Len(task'["qry"].res.rows) :
                      Satisfies(task'["qry"].res.rows[k], filters)
               /\ (offset = 0 /\ limit >= Cardinality(frase))
                    => {task'["qry"].res.rows[k] :
                            k \in 1..Len(task'["qry"].res.rows)}
                         = {FraseNew(r) : r \in {x \in frase : Satisfies(x, filters)}}
               /\ \A k \in 1..(Len(task'["qry"].res.rows) - 1) :
                      task'["qry"].res.rows[k].fecha_creacion.t
                        >= task'["qry"].res.rows[k + 1].fecha_creacion.t

\* C15: findAll(filters, limit, offset) returns only quotes that satisfy the
\* conjunction of the filters given (status, category id and creator id equal
\* to the filter value, the search text contained without regard to case in
\* the text or the author), all of them when the limit is large enough, in
\* descending order of creation time.
C15_FindAllFilters == [][C15_Step]_vars

\* every quote row references a user row and a category row
RefIntegrity ==
    \A r \in frase : HasUsuario(r.creado_por) /\ HasCategoria(r.categoria_id)

\* for every combination of filters, count(filters) is the length of
\* findAll(filters, unbounded limit, 0)
CountAgrees ==
    \A filters \in Filters :
        \A rows \in FindAllResults(filters, Cardinality(frase) + 1, 0) :
            CountRows(filters) = Len(rows)

\* C14: in every reachable state of the store, also after User.delete() and
\* Category.delete(force), and for every combination of filters,
\* count(filters) is the length of findAll(filters, unbounded limit, 0): it is
\* so in the store the run starts with and after every step that changes the
\* store.
C14_CountIsFindAllLength == CountAgrees /\ [][Store' # Store => CountAgrees']_vars

\* a user who had created quotes was deleted, the store took the quotes with
\* it, and a count() made afterwards has answered
C14_Witness ==
    /\ scenario = "consulta"
    /\ task["usr"].op = "delete"
    /\ task["usr"].res = Ok(1)
    /\ frase # {}
    /\ frase # SeedFrases
    /\ task["qry"].op = "count"
    /\ task["qry"].pc = "done"
    /\ task["qry"].call > task["usr"].call
    /\ task["qry"].res.value = CountRows(task["qry"].arg)

\* a category that quotes referenced was deleted by force
C14_Forced ==
    /\ scenario = "consulta"
    /\ task["cat"].op = "delete"
    /\ task["cat"].res = Ok(1)
    /\ task["cat"].refs > 0

\* the quotes whose status is scheduled and whose timestamp has been reached
Due ==
    {r \in frase :
        /\ r.status = "scheduled"
        /\ r.scheduled_at.kind = "date"
        /\ r.scheduled_at.t <= now}

\* this step executes a statement that writes or deletes quote rows
WritesFrase ==
    /\ queue # <<>>
    /\ task[Head(queue)].stmt.sql
        \in {"UPDATE frase", "DELETE frase", "DELETE usuario", "DELETE categoria"}

C13_Step ==
    /\ HeadRuns("qry", "SELECT frase due")
        => LET rows == task'["qry"].res.rows
           IN  /\ task'["qry"].res.kind = "ok"
               /\ {rows[k] : k \in 1..Len(rows)} = {FraseNew(r) : r \in Due}
               /\ Len(rows) = Cardinality(Due)
               /\ \A k \in 1..(Len(rows) - 1) :
                      rows[k].scheduled_at.t <= rows[k + 1].scheduled_at.t
    /\ (task'["qry"] # task["qry"] /\ task'["qry"].op = "findScheduled")
        => Store' = Store
    /\ \A r \in frase :
           r.status = "scheduled" => (r \in frase' \/ WritesFrase)

Persisted == frs.id_quote # 0 /\ FraseFindById(frs.id_quote) # {}

\* this step is the synchronous prefix of schedule(t) on a persisted quote
Schedules == Started("frs") /\ task'["frs"].op = "schedule" /\ Persisted

\* t, the date the schedule() of this step was given, is strictly later than now
InFuture == frs'.scheduled_at.kind = "date" /\ frs'.scheduled_at.t > now

\* the fields of the instance that schedule() and publish() do not set are
\* valid, and the category it names exists
OtherwiseValid ==
    /\ FraseValidate([frs EXCEPT !.status = "draft", !.scheduled_at = NullTs],
                     now).isValid
    /\ HasCategoria(frs.categoria_id)

\* a schedule(t) with t not in the future fails validation, the rows unchanged
C11_PastRejected ==
    (Schedules /\ ~InFuture)
        => /\ task'["frs"].pc = "done"
           /\ task'["frs"].res.type = "validation"
           /\ Mentions(task'["frs"].res.messages, ErrFechaPasada)
           /\ Store' = Store
           /\ queue' = queue

\* the UPDATE of a schedule() or of a publish() on a persisted quote succeeds,
\* and findById then returns the quote as scheduled for t, or as published
\* with no date
C11_RoundTrip ==
    (HeadRuns("frs", "UPDATE frase") /\ Persisted
        /\ task["frs"].op \in {"schedule", "publish"})
        => /\ task'["frs"].res.kind = "ok"
           /\ \E q \in {FraseNew(r) : r \in {x \in frase' : x.id_quote = frs.id_quote}} :
                  IF task["frs"].op = "schedule"
                  THEN /\ q.status = "scheduled"
                       /\ q.scheduled_at = task["frs"].stmt.params[3]
                       /\ q.scheduled_at = frs.scheduled_at
                  ELSE /\ q.status = "published"
                       /\ q.scheduled_at = NullTs

C11_Rejected ==
    /\ task["frs"].op = "schedule"
    /\ task["frs"].res.type = "validation"
    /\ Persisted
    /\ frs.scheduled_at = DateTs(1)
    /\ now >= 1

\* the status a lifecycle operation moves a quote to
Target(op) ==
    IF op = "publish" THEN "published"
    ELSE IF op = "schedule" THEN "scheduled"
    ELSE "draft"

\* the quote instance is as findById has just returned it
Fresh == frs.id_quote # 0 /\ frs \in FraseFindById(frs.id_quote)

\* this step is the synchronous prefix of publish(), of draft(), or of
\* schedule(t) with t in the future, on a freshly loaded quote
Moves ==
    /\ Started("frs")
    /\ Fresh
    /\ \/ task'["frs"].op \in {"publish", "draft"}
       \/ task'["frs"].op = "schedule" /\ InFuture

\* the instance differs from its row at most in the status and the date, as
\* after a lifecycle operation on a fresh instance has merged its two fields
InStep ==
    \E r \in frase :
        /\ r.id_quote = frs.id_quote
        /\ frs = [FraseNew(r) EXCEPT !.status = frs.status,
                                     !.scheduled_at = frs.scheduled_at]

C12_Step ==
    /\ Moves
        => /\ task'["frs"].pc = "run"
           /\ task'["frs"].stmt.sql = "UPDATE frase"
           /\ frs'.status = Target(task'["frs"].op)
    /\ (HeadRuns("frs", "UPDATE frase") /\ InStep
            /\ task["frs"].op \in {"publish", "schedule", "draft"})
        => /\ task'["frs"].res.kind = "ok"
           /\ \E r \in frase' :
                  /\ r.id_quote = frs.id_quote
                  /\ r.status = Target(task["frs"].op)
                  /\ r.status = "scheduled"
                        => r.scheduled_at = task["frs"].stmt.params[3]
                  /\ r.status # "scheduled" => r.scheduled_at = NullTs

\* C12: the lifecycle has no terminal state: from every persisted status and
\* at any later time, also after a scheduled timestamp has elapsed, each of
\* publish(), schedule(t) with t in the future and draft() succeeds on a quote
\* freshly loaded from the store and moves the row to the status it names.
C12_NoTerminalState == [][C12_Step]_vars

\* a lifecycle operation has passed validation on a freshly loaded quote that
\* was scheduled for a time that has elapsed
C12_Witness ==
    /\ task["frs"].op \in {"publish", "schedule", "draft"}
    /\ task["frs"].pc = "run"
    /\ InStep
    /\ \E r \in frase :
           /\ r.id_quote = frs.id_quote
           /\ r.status = "scheduled"
           /\ r.scheduled_at.t <= now

\* a published quote has been moved back to draft
C12_Moved ==
    /\ task["frs"].op = "draft"
    /\ task["frs"].res.kind = "ok"
    /\ \E r \in frase : r.id_quote = frs.id_quote /\ r.status = "draft"
    /\ calls = MaxCalls

\* createConnection has been called for connection c and has not resolved
Pending(c) ==
    \E i \in DbCallers :
        /\ task[i].pc = "run"
        /\ task[i].stmt.sql = "createConnection"
        /\ task[i].link = c

\* the connections that are open: established and not closed
Live == {c \in 1..connection.made : c \notin connection.ended /\ ~Pending(c)}

\* a connection the handle no longer refers to, nor will: it is not
\* this.connection and no pending createConnection or end() concerns it
Dropped(c) ==
    /\ c # connection.current
    /\ \A i \in DbCallers :
           ~(task[i].pc = "run" /\ task[i].link = c
             /\ task[i].stmt.sql \in {"createConnection", "end"})

\* C16: at most one connection is ever open and live, whatever the sequence
\* and interleaving of connect(), query() and beginTransaction() calls, also
\* of calls started together while no connection exists; and no connection
\* that was created is dropped without being closed.
C16_OneConnection ==
    /\ Cardinality(Live) <= 1
    /\ \A c \in Live : ~Dropped(c)

\* the call instance i is in ran alone: no other call was in flight when it
\* started and none has started since
Solo(i) ==
    /\ task[i].refs = 0
    /\ \A j \in DbCallers \ {i} : task[j].call < task[i].call

C17_Step ==
    \A i \in DbCallers :
        /\ (Started(i) /\ task'[i].op = "disconnect")
            => IF isConnected
               THEN /\ task'[i].pc = "run"
                    /\ task'[i].link = connection.current
               ELSE /\ task'[i].pc = "done"
                    /\ task'[i].res = Ok(0)
                    /\ connection' = connection
        /\ (task[i].pc = "run" /\ task'[i].pc = "done" /\ Solo(i)
                /\ task[i].op = "disconnect")
            => /\ task'[i].res = Ok(0)
               /\ task[i].link \in connection'.ended
               /\ ~isConnected'
        /\ (Started(i) /\ task'[i].op = "query" /\ ~isConnected)
            => /\ task'[i].stmt.sql = "createConnection"
               /\ connection'.made = connection.made + 1
        /\ (task[i].pc = "run" /\ task'[i].pc = "done" /\ Solo(i)
                /\ task[i].op = "query")
            => /\ task'[i].res = Ok(0)
               /\ isConnected'
               /\ connection'.current \notin connection'.ended
        /\ (Started(i) /\ task'[i].op = "connect" /\ isConnected)
            => /\ task'[i].pc = "done"
               /\ task'[i].res = Ok(0)
               /\ connection' = connection

\* C17: disconnect() on an open connection closes it and isConnected() is
\* false afterwards; disconnect() with no connection is a no-op that raises
\* nothing; a query() issued while disconnected, initially or after a
\* disconnect, first establishes the connection, so that isConnected() is true
\* when it has returned; connect() while connected changes nothing.  The
\* statements about what holds when a call has returned are those of calls
\* that ran alone.
C17_ConnectionLifecycle == [][C17_Step]_vars

\* a query() issued after a disconnect() has made the second connection and
\* returned, the first connection closed
C17_Witness ==
    /\ \E i \in DbCallers :
           /\ task[i].op = "query"
           /\ task[i].pc = "done"
           /\ task[i].res = Ok(0)
           /\ Solo(i)
    /\ connection.ended = {1}
    /\ connection.current = 2

\* the plaintexts tried against a stored hash
Plaintexts == {pShort, pSecret, pOther, <<>>}

\* the rows of users that authenticate(email, plaintext) would return
Authenticated(users, email, plaintext) ==
    {r \in users :
        /\ r.correo_electronico = email
        /\ verifyPassword(plaintext, r.password_hash)}

C21_Step ==
    /\ (Started("usr") /\ task'["usr"].op = "updatePassword"
            /\ Len(task'["usr"].arg) < MinPasswordLen)
        => /\ task'["usr"].pc = "done"
           /\ task'["usr"].res.kind = "error"
           /\ usr'.password_hash = usr.password_hash
           /\ usuario' = usuario
           /\ queue' = queue
    /\ (Started("usr") /\ task'["usr"].op = "updatePassword"
            /\ Len(task'["usr"].arg) >= MinPasswordLen
            /\ HasUsuario(usr.id_user))
        => /\ task'["usr"].pc = "run"
           /\ task'["usr"].stmt.sql = "UPDATE usuario password"
    /\ (HeadRuns("usr", "UPDATE usuario password") /\ HasUsuario(usr.id_user))
        => \E r \in usuario :
            /\ r.id_user = usr.id_user
            /\ task'["usr"].res = Ok(0)
            /\ usuario' = (usuario \ {r})
                    \cup {[r EXCEPT !.password_hash = usr'.password_hash]}
            /\ usr'.password_hash # usr.password_hash
                  \/ verifyPassword(task["usr"].arg, usr.password_hash)
            /\ \A plaintext \in Plaintexts :
                  (Authenticated(usuario', r.correo_electronico, plaintext) # {})
                      <=> plaintext = task["usr"].arg
            /\ \A x \in Authenticated(usuario', r.correo_electronico,
                                      task["usr"].arg) :
                  x.id_user = r.id_user

\* C21: updatePassword(newPlaintext) with fewer than 6 characters fails and
\* changes neither the stored nor the in-memory hash; with 6 or more on a
\* persisted user it replaces the stored and the in-memory hash, so that
\* authenticate(email, newPlaintext) returns the user and
\* authenticate(email, oldPlaintext) returns null for every other plaintext,
\* and the stored name, email and role are unchanged.
C21_UpdatePassword == [][C21_Step]_vars

\* updatePassword('secret') has replaced the hash of a user whose password
\* was another, in the store and in the instance
C21_Witness ==
    /\ task["usr"].op = "updatePassword"
    /\ task["usr"].res = Ok(0)
    /\ task["usr"].arg = pSecret
    /\ \E r \in usuario :
           /\ r.id_user = usr.id_user
           /\ r.password_hash = usr.password_hash
           /\ r.nombre = sEva
           /\ Authenticated(usuario, r.correo_electronico, pSecret) = {r}
           /\ Authenticated(usuario, r.correo_electronico, pOther) = {}

C22_Step ==
    /\ (Started("usr") /\ task'["usr"].op = "update")
        => /\ usr'.id_user = usr.id_user
           /\ usuario' = usuario
    /\ HeadRuns("usr", "UPDATE usuario")
        => /\ usr'.id_user = usr.id_user
           /\ {r.id_user : r \in usuario'} = {r.id_user : r \in usuario}
           /\ \A r \in usuario : \E x \in usuario' :
                 /\ x.id_user = r.id_user
                 /\ x.password_hash = r.password_hash
                 /\ x.fecha_creacion = r.fecha_creacion
                 /\ r.id_user # usr.id_user => x = r

\* C22: Usuario.update(fields) writes only name, email and role of the row
\* with the instance's identifier: whatever the field set holds (the
\* identifier key, a credential hash, a creation timestamp), the stored hash,
\* creation timestamp and identifier of that user are unchanged, the
\* instance's identifier is unchanged and no other user row is modified.
C22_UpdateWritesThreeColumns == [][C22_Step]_vars

\* an update() whose field set held an identifier, a hash and a creation
\* timestamp has written the role, and the row keeps its own hash and timestamp
C22_Witness ==
    /\ task["usr"].op = "update"
    /\ task["usr"].res.kind = "ok"
    /\ usr.password_hash = hashPassword(pOther, 0)
    /\ usr.id_user # 9
    /\ Cardinality(usuario) > 1
    /\ \E r \in usuario :
           /\ r.id_user = usr.id_user
           /\ r.rol = "admin"
           /\ r.password_hash # usr.password_hash
           /\ r.fecha_creacion # usr.fecha_creacion

\* the credentials an instance may carry
Credentials ==
    {NoCred, PlainCred(pShort), PlainCred(pSecret), hashPassword(pShort, 1),
     hashPassword(pSecret, 1), hashPassword(pSecret, 0)}

\* C23: the serialized form of a Usuario never contains the credential hash:
\* two instances that differ only in their credential hash serialize to
\* identical objects.
C23_ToJSONHidesHash ==
    probe.entity = "usuario.toJSON"
    => /\ "password_hash" \notin DOMAIN probe.result
       /\ \A k \in DOMAIN probe.result : probe.result[k] = usr[k]
       /\ \A c \in Credentials :
             UsuarioToJSON([usr EXCEPT !.password_hash = c]) = probe.result

\* an instance that carries a hash and valid public fields was serialized
C23_Witness ==
    /\ probe.entity = "usuario.toJSON"
    /\ usr.password_hash = hashPassword(pShort, 1)
    /\ probe.result.correo_electronico = eAna
    /\ probe.result.rol = "admin"

\* the instance of this call names a creator or a category that has no row
NamesMissing ==
    ~HasUsuario(frs.creado_por) \/ ~HasCategoria(frs.categoria_id)

C24_Step ==
    /\ (HeadRuns("frs", "INSERT frase") /\ NamesMissing)
        => /\ task'["frs"].res = ErrReferencia
           /\ frase' = frase
    /\ (HeadRuns("frs", "UPDATE frase") /\ NamesMissing
            /\ RowsWhere(frase, "id_quote", frs.id_quote) # {})
        => /\ task'["frs"].res = ErrReferencia
           /\ frase' = frase

\* C24: create() and update() of a quote that name a creator id or a
\* category id with no matching row fail with the domain reference error
\* (distinct from a validation error) and leave the store unchanged.
C24_MissingReferenceFails == [][C24_Step]_vars

\* status draft or published together with a scheduled timestamp
Inconsistent(r) ==
    r.status \in {"draft", "published"} /\ r.scheduled_at.kind # "null"

\* the rows this step writes
Written(rows, rows2) == rows2 \ rows

C25_NamedStep ==
    (HeadRuns("frs", "UPDATE frase")
        /\ task["frs"].op \in {"publish", "schedule", "draft"})
    => \A r \in Written(frase, frase') : ~Inconsistent(r)

C25_CreateStep ==
    HeadRuns("frs", "INSERT frase")
    => \A r \in Written(frase, frase') :
          /\ r.status = frs.status
          /\ r.scheduled_at = frs.scheduled_at

\* C25 as stated: create(), publish(), schedule() and draft() never write a
\* row whose status is draft or published while its scheduled timestamp is
\* not null; only the generic update(fields) can.
C25_OnlyUpdateInconsistent ==
    [][C25_NamedStep
       /\ (HeadRuns("frs", "INSERT frase")
            => \A r \in Written(frase, frase') : ~Inconsistent(r))]_vars

\* C25 (amended): publish(), schedule() and draft() never write a row whose
\* status is draft or published while its scheduled timestamp is not null;
\* create() writes the status and the timestamp the instance was built with,
\* so create() and the generic update(fields) can both persist such a row.
C25_NamedOperationsConsistent == [][C25_NamedStep /\ C25_CreateStep]_vars

\* create() has persisted a draft with a scheduled timestamp and draft() has
\* then rewritten the row with the timestamp cleared
C25_Witness ==
    /\ task["frs"].op = "draft"
    /\ task["frs"].res.kind = "ok"
    /\ frs.texto = tHope
    /\ \E r \in frase :
          /\ r.id_quote = frs.id_quote
          /\ r.status = "draft"
          /\ r.scheduled_at = NullTs
          /\ r.texto = tHope

\* this step removes a row of some table
Removed ==
    \/ \E r \in usuario : \A x \in usuario' : x.id_user # r.id_user
    \/ \E r \in categoria : \A x \in categoria' : x.id_category # r.id_category
    \/ \E r \in frase : \A x \in frase' : x.id_quote # r.id_quote

DeleteCalls == {"Usuario.delete", "Categoria.delete", "Frase.delete"}

\* in this step the console calls c
Calls(c) == console'.call = c /\ console.call # c

C26_Step ==
    /\ Removed => \E c \in DeleteCalls : Calls(c)
    /\ \A c \in DeleteCalls :
          Calls(c) => /\ console'.confirm
                      /\ console.pc \in {"deleteUser.confirm",
                                         "deleteCategory.confirm",
                                         "deleteCategory.forceDelete",
                                         "deleteQuote.confirm"}
    /\ (Calls("Categoria.delete") /\ console'.arg)
          => /\ console.count > 0
             /\ console.confirm
             /\ console'.forceDelete
    /\ (Calls("Categoria.delete") /\ ~console'.arg /\ console.count > 0)
          => ~console'.forceDelete /\ UNCHANGED <<categoria, frase>>

\* C26: no run of the console's menu removes a row without an affirmative
\* confirmation: Usuario.delete(), Categoria.delete() and Frase.delete() are
\* called only after the confirm prompt was answered yes, and
\* Categoria.delete is called with forceDelete = true only if the category had
\* at least one quote when counted and the force-delete prompt was answered
\* yes as well.
C26_DeleteOnlyConfirmed == [][C26_Step]_vars

\* a category with quotes was deleted after both prompts were answered yes
C26_Witness ==
    /\ console.call = "Categoria.delete"
    /\ console.arg
    /\ console.confirm /\ console.forceDelete
    /\ console.count > 0
    /\ RowsWhere(categoria, "id_category", cat.id_category) = {}
    /\ FrasesDeCategoria(cat.id_category) = {}

\* C27: in the console's quote menu every offered choice dispatches to its
\* own operation; choosing "Cambiar a Borrador" runs draftQuote, which calls
\* Frase.draft() on the selected quote.
C27_DraftReachable ==
    /\ console.choice = "Cambiar a Borrador" => console.handler = "draftQuote"
    /\ console.choice = "Frases en Borrador"
          => console.handler = "listDraftQuotes"
    /\ console.choice = "Publicar Frase" => console.handler = "publishQuote"
    /\ console.choice = "Programar Frase" => console.handler = "scheduleQuote"

UpdateFamily == {"update", "publish", "schedule", "draft"}

\* an update() of instance i is rejected by validation in this step
Rejected(i) ==
    /\ Started(i)
    /\ task'[i].op \in UpdateFamily
    /\ task'[i].res.type = "validation"

C28_Step ==
    /\ \A i \in {"usr", "cat", "frs"} :
          Rejected(i) => /\ Store' = Store
                         /\ ~Checked(i).isValid
                         /\ task'[i].sent = 0
    /\ (Rejected("frs") /\ task'["frs"].op = "schedule")
          => /\ frs'.status = "scheduled"
             /\ frs'.scheduled_at \in ScheduleDates
             /\ Mentions(task'["frs"].res.messages, ErrFechaPasada)
                    => NotAfterNow(frs'.scheduled_at, now)
    /\ (/\ Started("frs")
        /\ task'["frs"].op = "update"
        /\ ~SinId(frs.id_quote)
        /\ NotAfterNow(frs.scheduled_at, now)
        /\ frs'.scheduled_at = frs.scheduled_at)
          => /\ Rejected("frs")
             /\ Mentions(task'["frs"].res.messages, ErrFechaPasada)
             /\ frase' = frase

\* C28: update(fields) merges the supplied fields into the instance before
\* it validates: when the merged entity fails validation the store row is
\* unchanged and the instance keeps the rejected values.  So after a failed
\* schedule(pastTimestamp) the instance holds status scheduled with the past
\* timestamp, and an update that changes only the text is rejected too, until
\* the timestamp is cleared or replaced by a future one.
C28_MergeBeforeValidate == [][C28_Step]_vars

\* schedule() with an elapsed date failed on a draft, and the update of the
\* text that followed was rejected for the date the instance still holds
C28_Witness ==
    /\ task["frs"].op = "update"
    /\ task["frs"].res.type = "validation"
    /\ task["frs"].res.messages = <<ErrFechaPasada>>
    /\ frs.status = "scheduled"
    /\ frs.scheduled_at = DateTs(1)
    /\ frs.texto = tHope
    /\ \E r \in frase :
          /\ r.id_quote = frs.id_quote
          /\ r.status = "draft"
          /\ r.scheduled_at = NullTs
          /\ r.texto = tGift

\* the row of the quote the instance stands for holds an elapsed timestamp
Elapsed ==
    \E r \in frase :
        /\ r.id_quote = frs.id_quote
        /\ NotAfterNow(r.scheduled_at, now)

\* the call started in this step leaves the instance's scheduled_at as it was
KeepsDate(op) ==
    /\ Started("frs")
    /\ task'["frs"].op = op
    /\ frs'.scheduled_at = frs.scheduled_at

C29_Step ==
    /\ (Elapsed /\ KeepsDate("update") /\ NotAfterNow(frs.scheduled_at, now))
          => /\ Rejected("frs")
             /\ frase' = frase
    /\ (/\ Elapsed
        /\ Started("frs")
        /\ task'["frs"].op \in UpdateFamily
        /\ task'["frs"].pc = "run")
          => \/ frs'.scheduled_at = NullTs /\ frs'.status # "scheduled"
             \/ frs'.scheduled_at.kind = "date" /\ frs'.scheduled_at.t > now
    /\ (/\ Elapsed
        /\ Started("frs")
        /\ task'["frs"].op \in {"publish", "draft"})
          => frs'.scheduled_at = NullTs

RowIds(i) ==
    IF i = "usr" THEN {r.id_user : r \in usuario}
    ELSE IF i = "cat" THEN {r.id_category : r \in categoria}
    ELSE {r.id_quote : r \in frase}

\* instance i carries an identifier its table has issued and whose row was
\* removed: findById(id) returns null
TableOf(i) ==
    IF i = "usr" THEN "usuario" ELSE IF i = "cat" THEN "categoria" ELSE "frase"

Gone(i) ==
    /\ IdOf(i) # 0
    /\ IdOf(i) < nextId[TableOf(i)]
    /\ IdOf(i) \notin RowIds(i)

DeleteSql(i) ==
    IF i = "usr" THEN "DELETE usuario"
    ELSE IF i = "cat" THEN "DELETE categoria" ELSE "DELETE frase"

UpdateSqls(i) ==
    IF i = "usr" THEN {"UPDATE usuario", "UPDATE usuario password"}
    ELSE IF i = "cat" THEN {"UPDATE categoria"} ELSE {"UPDATE frase"}

C30_Step(i) ==
    /\ (HeadRuns(i, DeleteSql(i)) /\ task'[i].res = Ok(1))
          => /\ IdOf(i)' = IdOf(i)
             /\ IdOf(i) # 0
             /\ Gone(i)'
    /\ (Gone(i) /\ HeadRuns(i, DeleteSql(i)))
          => /\ task'[i].res = Ok(0)
             /\ Store' = Store
    /\ (Gone(i) /\ IdOf(i)' = IdOf(i)) => Gone(i)'
    /\ (/\ Gone(i)
        /\ Started(i)
        /\ task'[i].op \in UpdateFamily \cup {"updatePassword"})
          => /\ Store' = Store
             /\ IdOf(i)' = IdOf(i)
             /\ task'[i].pc = "run" \/ task'[i].res.type = "validation"
    /\ (Gone(i) /\ \E sql \in UpdateSqls(i) : HeadRuns(i, sql))
          => /\ task'[i].res = Ok(0)
             /\ Store' = Store
             /\ IdOf(i)' = IdOf(i)

\* C30: after delete() has removed an entity's row the instance keeps its
\* identifier; a second delete() on it returns false, findById(id) returns
\* null, and a later update(), publish(), schedule(), draft() or
\* updatePassword() with valid data on that instance returns normally,
\* without raising and without creating or changing any row.
C30_AfterDelete == [][\A i \in {"usr", "cat", "frs"} : C30_Step(i)]_vars

\* publish() returned normally on a quote whose row delete() had removed
C30_Witness ==
    /\ task["frs"].op = "publish"
    /\ task["frs"].res = Ok(0)
    /\ frs.id_quote = 1
    /\ frs.status = "published"
    /\ frase = {}
    /\ calls = MaxCalls

=============================================================================
